---- MODULE Spec2Model ----
(***************************************************************************)
(* Content acquisition and rewriting pipeline of langread:                 *)
(*   - the bulk operation orchestrator   (src/src/api/main.py)             *)
(*   - the query cache                   (src/src/scrapers/cache.py)       *)
(*   - synthesis and extraction          (src/src/scrapers/agent.py)       *)
(* Each component has its own specification over the shared variables; a   *)
(* component's specification leaves the other components' variables idle.  *)
(***************************************************************************)
EXTENDS Integers, Sequences, FiniteSets, TLC

(***************************************************************************)
(* Bounds                                                                  *)
(***************************************************************************)
MaxOps == 1
MaxCand == 2
MaxFaults == 1
MaxSets == 2
MaxGets == 2
MaxClock == 25
MaxArticles == 2
MaxElements == 3
MaxTags == 3
MaxTagOps == 5
MaxEntries == 2
MaxPersists == 3
MaxGenerated == 3
MaxAsked == 2

(***************************************************************************)
(* Small helpers                                                           *)
(***************************************************************************)
Absent == "absent"
NotSet == 0 - 1

SeqsUpTo(S, n) == UNION { [1..k -> S] : k \in 0..n }

Contains(seq, x) == \E k \in 1..Len(seq) : seq[k] = x

(***************************************************************************)
(* Bulk operation orchestrator: state                                      *)
(***************************************************************************)
VARIABLES
    bulk_fetch_operations,  \* registry: operation id -> operation dict
    tasks,                  \* operation id -> locals and position of its background task
    articles_collection,    \* the documents of db.articles_collection
    wall_clock,             \* the second datetime.now() falls in
    discovered,             \* candidates Discovery has handed out so far
    faults                  \* calls that have raised so far

bulkVars == <<bulk_fetch_operations, tasks, articles_collection, wall_clock,
              discovered, faults>>

(***************************************************************************)
(* Query cache: state                                                      *)
(***************************************************************************)
VARIABLES
    cache_files,    \* cache key -> the record of <cache_dir>/<key>.json
    metadata,       \* ArticleCache.metadata, the index of metadata.json
    stats,          \* ArticleCache.stats
    now,            \* datetime.now(), in hours
    response        \* the last value returned by cache.get or POST /articles

cacheVars == <<cache_files, metadata, stats, now, response>>

(***************************************************************************)
(* Synthesis and extraction: state                                         *)
(***************************************************************************)
VARIABLES
    synth_args,       \* the arguments of a call of group_and_rewrite_articles
    synth_llm,        \* what self.llm.ainvoke did in that call
    synth_returned,   \* what the call returned
    extract_page,     \* the page a call of extract_content is about
    extract_returned, \* what the call returned or raised
    extract_log,      \* how each attempt of the call ended, in order
    extract_waits     \* the seconds slept between the attempts, in order

synthVars == <<synth_args, synth_llm, synth_returned>>

extractVars == <<extract_page, extract_returned, extract_log, extract_waits>>

(***************************************************************************)
(* Tag store: state                                                        *)
(***************************************************************************)
VARIABLES
    tags_collection,  \* tag id -> the document of db.tags_collection
    tags_created,     \* how many tags have been inserted so far
    tag_ops,          \* how many tag operations have run so far
    last_tag_op       \* the last tag operation and its arguments

tagVars == <<tags_collection, tags_created, tag_ops, last_tag_op>>

(***************************************************************************)
(* Single calls of search_web: state                                       *)
(***************************************************************************)
VARIABLES
    search_args,      \* the arguments of a call of search_web and what it meets
    search_returned   \* what the call returned or raised

searchVars == <<search_args, search_returned>>

(***************************************************************************)
(* Concurrent persists of articles: state                                  *)
(***************************************************************************)
VARIABLES
    persists          \* persist number -> the call and how far it has got

persistVars == <<persists>>

(***************************************************************************)
(* Single calls of generate_tags: state                                    *)
(***************************************************************************)
VARIABLES
    generate_args,     \* the arguments of a call of generate_tags and what it meets
    generate_returned  \* what the call returned

generateVars == <<generate_args, generate_returned>>

(***************************************************************************)
(* Single calls of get_content: state                                      *)
(***************************************************************************)
VARIABLES
    content_args,      \* the arguments of a call of get_content and what it meets
    content_tasks,     \* candidate number -> how far its extraction has got
    content_finished,  \* the candidate numbers in the order their extractions ended
    content_articles,  \* the local list `articles` after the join
    content_returned   \* what the call returned

contentVars ==
    <<content_args, content_tasks, content_finished, content_articles, content_returned>>

(***************************************************************************)
(* Concurrent tagging runs: state                                          *)
(***************************************************************************)
VARIABLES
    tag_runs          \* run number -> a run of extract_tags_from_article

runVars == <<tag_runs>>

lateVars == <<contentVars, runVars>>

callVars == <<searchVars, persistVars, generateVars, lateVars>>

vars == <<bulkVars, cacheVars, synthVars, extractVars, tagVars, callVars>>

Difficulties == <<"beginner", "intermediate", "advanced">>

\* The candidate articles Discovery + Extraction can hand to the fetch step.
CandidateArticles ==
    { [url |-> "u1", title |-> "t1", has_text |-> TRUE],
      [url |-> "u2", title |-> "t2", has_text |-> TRUE],
      [url |-> "",   title |-> "t3", has_text |-> TRUE],
      [url |-> "u1", title |-> "t1", has_text |-> FALSE] }

CandidateLists(n) == SeqsUpTo(CandidateArticles, n)

RequestLanguages == {"en", "all"}

ProcessSteps ==
    { <<"fetch", "aggregate", "rewrite">>,
      <<"fetch">>,
      <<"fetch", "rewrite">>,
      <<"aggregate", "rewrite">> }

BulkFetchRequest ==
    [language : RequestLanguages, fetch_only : BOOLEAN, process_steps : ProcessSteps]

MaxRegistered == 2

MaxSeconds == 1

\* an id made of the second alone
timestamp_id(sec, n) == <<sec, 0>>

\* f"bulk-fetch-{now:%Y%m%d-%H%M%S}-{len(bulk_fetch_operations) + 1}"
OperationId(sec, n) == <<sec, n>>

NewOperation(id, request) ==
    [ id                 |-> id,
      status             |-> "running",
      logs               |-> <<"starting">>,
      language           |-> request.language,
      fetch_only         |-> request.fetch_only,
      process_steps      |-> request.process_steps,
      completed          |-> FALSE,
      completed_at       |-> Absent,
      error              |-> Absent,
      articles_processed |-> 0,
      articles_cached    |-> 0,
      articles_fetched   |-> 0,
      articles_skipped   |-> 0,
      articles_prepared  |-> NotSet,
      articles_rewritten |-> NotSet ]

NewTask(language) ==
    [ pc                 |-> "start",
      language           |-> language,
      langs              |-> <<>>,
      rss_articles       |-> <<>>,
      i                  |-> 0,
      raw_articles_count |-> 0,
      all_articles       |-> <<>>,
      ri                 |-> 0,
      di                 |-> 0,
      tag_ids            |-> <<>>,
      rewritten_count    |-> 0,
      \* history of the task, read by the properties only
      fetch_finished     |-> FALSE,
      tagging_called     |-> FALSE,
      synthesis_called   |-> FALSE,
      persisted          |-> {},
      rewrite_threw      |-> {} ]

LanguagesToProcess(language) ==
    IF language = "all" THEN <<"ko", "en">> ELSE <<language>>

\* log_message: only the lines process_bulk_fetch itself writes are kept; the
\* per-article lines of the steps carry no state the operation reads back
log_message(operation, msg) ==
    [operation EXCEPT !.logs = Append(@, msg)]

\* a variant: the status is set without the completed flag
MarkCompleted_status_only(operation) ==
    [operation EXCEPT !.status = "completed", !.completed_at = "set"]

MarkCompleted(operation) ==
    [operation EXCEPT !.status = "completed",
                      !.completed = TRUE,
                      !.completed_at = "set"]

MarkFailed(operation, msg) ==
    [operation EXCEPT !.status = "failed",
                      !.error = msg,
                      !.logs = Append(@, "Error: " \o msg)]

(***************************************************************************)
(* Bulk operation orchestrator: documents                                  *)
(***************************************************************************)
\* _id strings: "<operation_id>-<lang>-<i>", "<url>-<difficulty>" and a bare url
RawId(id, lang, i) == <<"raw", id, lang, i>>
RewrittenId(url, difficulty) == <<"rewritten", url, difficulty>>
UrlId(url) == <<url>>

RawDocument(id, lang, i, article) ==
    [ _id           |-> RawId(id, lang, i),
      title         |-> article.title,
      url           |-> article.url,
      language      |-> lang,
      content_type  |-> "raw",
      bulk_fetch_id |-> id,
      original_url  |-> "",
      difficulty    |-> "",
      tag_ids       |-> <<>>,
      grouped       |-> FALSE,
      rewritten     |-> FALSE ]

RewrittenDocument(id, article, difficulty, tag_ids) ==
    [ _id           |-> RewrittenId(article.url, difficulty),
      title         |-> article.title,
      url           |-> "",
      language      |-> article.language,
      content_type  |-> "rewritten_article",
      bulk_fetch_id |-> id,
      original_url  |-> article.url,
      difficulty    |-> difficulty,
      tag_ids       |-> tag_ids,
      grouped       |-> FALSE,
      rewritten     |-> FALSE ]

\* find_one({"url": url}): the documents it can return
find_url(url) == { d \in articles_collection : d.url = url }

\* insert_one raises DuplicateKeyError when the _id is taken
id_taken(_id) == \E d \in articles_collection : d._id = _id

\* update_one({"_id": _id}, {"$set": {"rewritten": True}})
update_rewritten(_id) ==
    { IF d._id = _id THEN [d EXCEPT !.rewritten = TRUE] ELSE d : d \in articles_collection }

\* validation of a candidate in fetch_step: url, title and usable text
ValidArticle(article) ==
    /\ article.url # ""
    /\ article.title # ""
    /\ article.has_text

\* the article as the later phases see it
InMemory(lang, article) ==
    [url |-> article.url, title |-> article.title, language |-> lang]

FromDb(lang, existing) ==
    [url |-> existing.url, title |-> existing.title, language |-> existing.language]

(***************************************************************************)
(* Bulk operation orchestrator: operations                                 *)
(***************************************************************************)
SetOperation(id, operation) ==
    bulk_fetch_operations' = [bulk_fetch_operations EXCEPT ![id] = operation]

SetTask(id, task) ==
    tasks' = [tasks EXCEPT ![id] = task]

\* a call succeeds / a call fails (raises, or comes back empty)
Succeeds == UNCHANGED faults

Fails == faults < MaxFaults /\ faults' = faults + 1

\* POST /bulk-fetch: register the operation and schedule its background task
\* POST /bulk-fetch: the operation is registered under its id and its
\* background task is added
register_operation(request) ==
    /\ LET id == OperationId(wall_clock, Cardinality(DOMAIN bulk_fetch_operations) + 1) IN
         /\ bulk_fetch_operations' =
                (id :> NewOperation(id, request)) @@ bulk_fetch_operations
         /\ tasks' = (id :> NewTask(request.language)) @@ tasks
    /\ UNCHANGED <<articles_collection, wall_clock, discovered, faults>>

bulk_fetch(request) ==
    /\ Cardinality(DOMAIN bulk_fetch_operations) < MaxOps
    /\ register_operation(request)

\* POST /bulk-fetch, for a registry of several operations
bulk_fetch_registry(request) ==
    /\ Cardinality(DOMAIN bulk_fetch_operations) < MaxRegistered
    /\ register_operation(request)

\* a second passes on the clock of datetime.now()
second_passes ==
    /\ wall_clock < MaxSeconds
    /\ wall_clock' = wall_clock + 1
    /\ UNCHANGED <<bulk_fetch_operations, tasks, articles_collection, discovered, faults>>

\* the background task starts: process_bulk_fetch up to the first await of fetch_step
process_bulk_fetch(id) ==
    /\ tasks[id].pc = "start"
    /\ SetTask(id, [tasks[id] EXCEPT !.pc = "rss",
                                     !.langs = LanguagesToProcess(tasks[id].language)])
    /\ UNCHANGED <<bulk_fetch_operations, articles_collection, wall_clock,
                   discovered, faults>>

\* the task has returned: its locals are gone, its history stays
Finished(task) ==
    [task EXCEPT !.pc = "done", !.langs = <<>>, !.rss_articles = <<>>, !.i = 0,
                 !.raw_articles_count = 0, !.all_articles = <<>>, !.ri = 0, !.di = 0,
                 !.tag_ids = <<>>, !.rewritten_count = 0]

\* the except clause of process_bulk_fetch
process_raises(id, msg) ==
    /\ SetOperation(id, MarkFailed(bulk_fetch_operations[id], msg))
    /\ SetTask(id, Finished(tasks[id]))

\* fetch_step: fetch_rss_articles(lang, ...) returns the candidates or raises
fetch_rss(id) ==
    /\ tasks[id].pc = "rss"
    /\ \/ \E candidates \in CandidateLists(MaxCand - discovered) :
             /\ SetTask(id, [tasks[id] EXCEPT !.pc = "check",
                                              !.rss_articles = candidates,
                                              !.i = 0,
                                              !.raw_articles_count = 0])
             /\ discovered' = discovered + Len(candidates)
             /\ Succeeds
             /\ UNCHANGED bulk_fetch_operations
       \/ /\ process_raises(id, "discovery failed")
          /\ Fails
          /\ UNCHANGED discovered
    /\ UNCHANGED <<articles_collection, wall_clock>>

skip_article(operation) ==
    [operation EXCEPT !.articles_skipped = @ + 1]

\* does fetch_step hand an already stored article on to the next phases
include_existing(operation) ==
    /\ ~operation.fetch_only
    /\ Contains(operation.process_steps, "aggregate")

\* fetch_step: the loop moves to the next candidate (enumerate index i)
next_candidate(task) ==
    [task EXCEPT !.pc = "check", !.rss_articles = Tail(@), !.i = @ + 1]

\* fetch_step: validate the candidate and look its url up in the collection
fetch_check(id) ==
    LET task      == tasks[id]
        operation == bulk_fetch_operations[id]
        lang      == Head(task.langs)
    IN
    /\ task.pc = "check"
    /\ task.rss_articles # <<>>
    /\ LET article == Head(task.rss_articles) IN
         IF ~ValidArticle(article)
         THEN /\ SetOperation(id, skip_article(operation))
              /\ SetTask(id, next_candidate(task))
              /\ Succeeds
         ELSE \/ /\ find_url(article.url) = {}
                 /\ SetTask(id, [task EXCEPT !.pc = "insert"])
                 /\ Succeeds
                 /\ UNCHANGED bulk_fetch_operations
              \/ \E existing \in find_url(article.url) :
                   /\ SetOperation(id, skip_article(operation))
                   /\ IF ~existing.grouped /\ include_existing(operation)
                      THEN SetTask(id, [next_candidate(task) EXCEPT !.all_articles =
                                           Append(@, FromDb(lang, existing))])
                      ELSE SetTask(id, next_candidate(task))
                   /\ Succeeds
              \/ \* find_one raises: the per-article except clause logs it
                 /\ SetTask(id, next_candidate(task))
                 /\ Fails
                 /\ UNCHANGED bulk_fetch_operations
    /\ UNCHANGED <<articles_collection, wall_clock, discovered>>

\* fetch_step: infer topics, then insert_one the raw document
fetch_insert(id) ==
    LET task      == tasks[id]
        operation == bulk_fetch_operations[id]
        lang      == Head(task.langs)
        article   == Head(task.rss_articles)
        document  == RawDocument(id, lang, task.i, article)
        kept      == [next_candidate(task) EXCEPT
                          !.all_articles = Append(@, InMemory(lang, article))]
    IN
    /\ task.pc = "insert"
    /\ \/ \* extract_topics_from_article raises: the per-article except clause logs it
          /\ SetTask(id, next_candidate(task))
          /\ Fails
          /\ UNCHANGED <<bulk_fetch_operations, articles_collection>>
       \/ /\ ~id_taken(document._id)
          /\ articles_collection' = articles_collection \cup {document}
          /\ SetOperation(id, [operation EXCEPT !.articles_fetched = @ + 1])
          /\ SetTask(id, [kept EXCEPT !.raw_articles_count = @ + 1,
                                      !.persisted = @ \cup {document}])
          /\ Succeeds
       \/ \* insert_one raises
          /\ SetOperation(id, skip_article(operation))
          /\ SetTask(id, kept)
          /\ Fails
          /\ UNCHANGED articles_collection
    /\ UNCHANGED <<wall_clock, discovered>>

\* what extract_tags_from_article can return as tag_ids
TagIds == <<"tag1">>

\* aggregate_step: the fetched articles by language, nothing grouped or dropped
aggregate_step(fetched_articles) ==
    SelectSeq(fetched_articles, LAMBDA article : article.language # "")

\* mutant: the fetch_only flag is not consulted
only_fetch_by_steps(operation) ==
    operation.process_steps = <<"fetch">>

\* process_bulk_fetch: stop after the fetch step
only_fetch(operation) ==
    operation.fetch_only \/ operation.process_steps = <<"fetch">>

\* process_bulk_fetch: the articles the rewrite step is given
prepared_articles(operation, fetched_articles) ==
    IF Contains(operation.process_steps, "aggregate")
    THEN aggregate_step(fetched_articles)
    ELSE <<>>

run_rewrite(operation, prepared) ==
    Contains(operation.process_steps, "rewrite") /\ prepared # <<>>

\* process_bulk_fetch: the normal end
complete(id, operation, task) ==
    /\ SetOperation(id, MarkCompleted(operation))
    /\ SetTask(id, Finished(task))

\* fetch_step: the candidates of one language are done; after the last language
\* fetch_step returns and process_bulk_fetch goes on to the first await of rewrite_step
fetch_end_language(id) ==
    LET task      == tasks[id]
        operation == bulk_fetch_operations[id]
        counted   == [operation EXCEPT !.articles_cached = @ + task.raw_articles_count]
        returned  == [counted EXCEPT !.articles_fetched = 0, !.articles_skipped = 0]
        fetched   == [task EXCEPT !.fetch_finished = TRUE]
        prepared  == prepared_articles(operation, task.all_articles)
        organized == IF Contains(operation.process_steps, "aggregate")
                     THEN [returned EXCEPT !.articles_prepared = Len(prepared)]
                     ELSE returned
    IN
    /\ task.pc = "check"
    /\ task.rss_articles = <<>>
    /\ IF Len(task.langs) > 1
       THEN /\ SetOperation(id, counted)
            /\ SetTask(id, [task EXCEPT !.pc = "rss", !.langs = Tail(@), !.i = 0,
                                        !.raw_articles_count = 0])
       ELSE IF only_fetch(operation)
       THEN complete(id, log_message(returned, "Only fetch step was requested"), fetched)
       ELSE IF run_rewrite(operation, prepared)
       THEN /\ SetOperation(id, organized)
            /\ SetTask(id, [fetched EXCEPT !.pc = "tag", !.all_articles = prepared,
                                           !.ri = 1, !.i = 0, !.langs = <<>>,
                                           !.raw_articles_count = 0])
       ELSE complete(id, log_message(organized, "completed successfully"), fetched)
    /\ UNCHANGED <<articles_collection, wall_clock, discovered, faults>>

\* rewrite_step: on to the next article, or return to process_bulk_fetch
next_article(id, operation, task) ==
    IF task.ri < Len(task.all_articles)
    THEN /\ SetOperation(id, operation)
         /\ SetTask(id, [task EXCEPT !.pc = "tag", !.ri = @ + 1, !.di = 0,
                                     !.tag_ids = <<>>])
    ELSE complete(id,
                  log_message([operation EXCEPT !.articles_rewritten = task.rewritten_count],
                              "completed successfully"),
                  task)

\* rewrite_step: on to the next difficulty, or to marking the source article
next_difficulty(task) ==
    IF task.di < Len(Difficulties)
    THEN [task EXCEPT !.pc = "synth", !.di = @ + 1]
    ELSE [task EXCEPT !.pc = "mark"]

\* mutant: no except clause around one difficulty level, the exception
\* reaches process_bulk_fetch
difficulty_raises_escapes(id, operation, task) ==
    /\ SetOperation(id, MarkFailed(operation, "rewrite failed"))
    /\ SetTask(id, Finished(
           [task EXCEPT !.rewrite_threw = @ \cup {task.all_articles[task.ri].url}]))

\* rewrite_step: the except clause around one difficulty level logs and goes on
difficulty_raises(id, operation, task) ==
    /\ SetOperation(id, operation)
    /\ SetTask(id, next_difficulty(
           [task EXCEPT !.rewrite_threw = @ \cup {task.all_articles[task.ri].url}]))

\* rewrite_step: the except clause around one article logs and goes on
article_raises(id, operation, task) ==
    next_article(id, operation,
                 [task EXCEPT !.rewrite_threw = @ \cup {task.all_articles[task.ri].url}])

\* rewrite_step: Tagging for article ri; no tag ids come back after a failure
rewrite_tag(id) ==
    LET task      == tasks[id]
        operation == bulk_fetch_operations[id]
        called    == [task EXCEPT !.tagging_called = TRUE]
    IN
    /\ task.pc = "tag"
    /\ \/ /\ SetTask(id, [called EXCEPT !.pc = "synth", !.di = 1, !.tag_ids = TagIds])
          /\ Succeeds
          /\ UNCHANGED bulk_fetch_operations
       \/ /\ next_article(id, operation, called)
          /\ Fails
    /\ UNCHANGED <<articles_collection, wall_clock, discovered>>

\* rewrite_step: Synthesis of article ri at difficulty di, then insert_one of the result
rewrite_synth(id) ==
    LET task      == tasks[id]
        operation == bulk_fetch_operations[id]
        called    == [task EXCEPT !.synthesis_called = TRUE]
        article   == task.all_articles[task.ri]
        document  == RewrittenDocument(id, article, Difficulties[task.di], task.tag_ids)
    IN
    /\ task.pc = "synth"
    /\ \/ /\ ~id_taken(document._id)
          /\ articles_collection' = articles_collection \cup {document}
          /\ SetTask(id, next_difficulty([called EXCEPT !.rewritten_count = @ + 1]))
          /\ Succeeds
          /\ UNCHANGED bulk_fetch_operations
       \/ \* nothing came back
          /\ SetTask(id, next_difficulty(called))
          /\ Fails
          /\ UNCHANGED <<bulk_fetch_operations, articles_collection>>
       \/ \* rewrite_article_content or insert_one raises
          /\ difficulty_raises(id, operation, called)
          /\ \/ Fails
             \/ id_taken(document._id) /\ Succeeds
          /\ UNCHANGED articles_collection
    /\ UNCHANGED <<wall_clock, discovered>>

\* rewrite_step: update_one marking the source article rewritten
rewrite_mark(id) ==
    LET task      == tasks[id]
        operation == bulk_fetch_operations[id]
        article   == task.all_articles[task.ri]
    IN
    /\ task.pc = "mark"
    /\ \/ /\ articles_collection' = update_rewritten(UrlId(article.url))
          /\ next_article(id, operation, task)
          /\ Succeeds
       \/ /\ article_raises(id, operation, task)
          /\ Fails
          /\ UNCHANGED articles_collection
    /\ UNCHANGED <<wall_clock, discovered>>

(***************************************************************************)
(* Query cache: values                                                     *)
(***************************************************************************)
TTL_HOURS == 24

\* the hours the clock can move in one step
ClockSteps == {12, 13}

\* queries and languages are sequences of characters; titles and texts are
\* sequences of words, markers, spaces and line breaks
Queries ==
    { <<"a", " ", "b">>,
      <<" ", "A", " ", "b", " ">>,
      <<"a", " ", " ", "b">> }

CacheLanguages == { <<"e", "n">>, <<"k", "o">> }

\* ArticleContent and ContentSection objects, datetime values and None
NoneValue == [kind |-> "None", value |-> 0]

DateTime(t) == [kind |-> "datetime", value |-> t]

ContentSection(type, content, order) ==
    [kind |-> "ContentSection", type |-> type, content |-> content,
     caption |-> NoneValue, order |-> order]

ArticleContent(title, url, source, language, date_published, content, topics) ==
    [kind |-> "ArticleContent", title |-> title, url |-> url, source |-> source,
     language |-> language, date_published |-> date_published, content |-> content,
     topics |-> topics]

Article1 ==
    ArticleContent(<<"t1">>, "u1", "s1", "en", DateTime(7),
                   <<ContentSection("heading", <<"h">>, 0),
                     ContentSection("text", <<"p">>, 1)>>,
                   <<"food", "health">>)

Article2 ==
    ArticleContent(<<"t2">>, "u2", "s2", "en", NoneValue,
                   <<ContentSection("text", <<"q">>, 0)>>, <<"food">>)

\* the article lists handed to cache.set
ArticleLists == { <<>>, <<Article2, Article1>> }

(***************************************************************************)
(* Query cache: ArticleCache                                               *)
(***************************************************************************)
lower(c) == IF c = "A" THEN "a" ELSE IF c = "B" THEN "b" ELSE c

str_lower(str) == [k \in 1..Len(str) |-> lower(str[k])]

Whitespace == {" ", "\n", "\n\n"}

RECURSIVE lstrip(_)
lstrip(str) ==
    IF str # <<>> /\ Head(str) \in Whitespace THEN lstrip(Tail(str)) ELSE str

RECURSIVE rstrip(_)
rstrip(str) ==
    IF str # <<>> /\ str[Len(str)] \in Whitespace
    THEN rstrip(SubSeq(str, 1, Len(str) - 1))
    ELSE str

strip(str) == rstrip(lstrip(str))

\* str.replace(' ', '_')
replace_spaces(str) == [k \in 1..Len(str) |-> IF str[k] = " " THEN "_" ELSE str[k]]

_get_cache_key(query, language) ==
    language \o <<"_">> \o replace_spaces(strip(str_lower(query)))

\* _make_serializable, by the branch each value takes
serialize_value(value) ==
    IF value.kind = "datetime" THEN [kind |-> "str", value |-> value.value] ELSE value

serialize_section(section) ==
    IF section.kind = "ContentSection"
    THEN [section EXCEPT !.kind = "dict", !.caption = serialize_value(@)]
    ELSE section

serialize_article(article) ==
    IF article.kind = "ArticleContent"
    THEN [article EXCEPT !.kind = "dict",
                         !.date_published = serialize_value(@),
                         !.content = [k \in 1..Len(@) |-> serialize_section(@[k])]]
    ELSE article

_make_serializable(articles) ==
    [k \in 1..Len(articles) |-> serialize_article(articles[k])]

\* json.dump and json.load of the articles of a cache record
json_kind(kind) ==
    IF kind = "dict" THEN "object"
    ELSE IF kind = "str" THEN "string"
    ELSE IF kind = "None" THEN "null"
    ELSE kind

python_kind(kind) ==
    IF kind = "object" THEN "dict"
    ELSE IF kind = "string" THEN "str"
    ELSE IF kind = "null" THEN "None"
    ELSE kind

json_dump(articles) ==
    [k \in 1..Len(articles) |->
        [articles[k] EXCEPT
            !.kind = json_kind(@),
            !.date_published = [@ EXCEPT !.kind = json_kind(@)],
            !.content = [n \in 1..Len(@) |->
                            [@[n] EXCEPT !.kind = json_kind(@),
                                         !.caption = [@ EXCEPT !.kind = json_kind(@)]]]]]

json_load(articles) ==
    [k \in 1..Len(articles) |->
        [articles[k] EXCEPT
            !.kind = python_kind(@),
            !.date_published = [@ EXCEPT !.kind = python_kind(@)],
            !.content = [n \in 1..Len(@) |->
                            [@[n] EXCEPT !.kind = python_kind(@),
                                         !.caption = [@ EXCEPT !.kind = python_kind(@)]]]]]

\* what get returns: None, or the list of articles
Miss == [found |-> FALSE, articles |-> <<>>]

Hit(articles) == [found |-> TRUE, articles |-> articles]

\* an age test that also fails the record whose age is exactly the TTL
expired_at_ttl(data) == now - data.timestamp >= TTL_HOURS

\* ArticleCache.get: the age test of a stored record
expired(data) == now - data.timestamp > TTL_HOURS

\* ArticleCache.get: the value returned
cache_get_result(query, language) ==
    LET cache_key == _get_cache_key(query, language) IN
    IF cache_key \in DOMAIN cache_files /\ ~expired(cache_files[cache_key])
    THEN Hit(json_load(cache_files[cache_key].articles))
    ELSE Miss

\* ArticleCache.get: the counters after the call
stats_after_get(query, language) ==
    IF cache_get_result(query, language).found
    THEN [stats EXCEPT !.hits = @ + 1]
    ELSE [stats EXCEPT !.misses = @ + 1]

\* ArticleCache.set: the record written, the index and the counters
files_after_set(query, language, articles, logs) ==
    (_get_cache_key(query, language) :>
        [ query     |-> query,
          language  |-> language,
          articles  |-> json_dump(_make_serializable(articles)),
          timestamp |-> now,
          logs      |-> logs ]) @@ cache_files

metadata_after_set(query, language, articles) ==
    [ queries        |-> (_get_cache_key(query, language) :>
                             [ query         |-> query,
                               language      |-> language,
                               timestamp     |-> now,
                               article_count |-> Len(articles) ]) @@ metadata.queries,
      total_articles |-> metadata.total_articles + Len(articles) ]

stats_after_set(before) == [before EXCEPT !.items = @ + 1]

\* _load_metadata when there is no metadata file
NewMetadata == [queries |-> [key \in {} |-> key], total_articles |-> 0]

NoResponse == [call |-> "none", source |-> "none", articles |-> <<>>, at |-> 0]

Response(call, source, articles) ==
    [call |-> call, source |-> source, articles |-> articles, at |-> now]

cache_get(query, language) ==
    /\ stats.hits + stats.misses < MaxGets
    /\ stats' = stats_after_get(query, language)
    /\ response' = Response("get",
                            IF cache_get_result(query, language).found THEN "hit" ELSE "miss",
                            cache_get_result(query, language).articles)
    /\ UNCHANGED <<cache_files, metadata, now>>

\* the log lines POST /articles has collected when it calls set
FetchLogs == <<"FETCH">>

cache_set(query, language, articles) ==
    /\ stats.items < MaxSets
    /\ cache_files' = files_after_set(query, language, articles, FetchLogs)
    /\ metadata' = metadata_after_set(query, language, articles)
    /\ stats' = stats_after_set(stats)
    /\ UNCHANGED <<now, response>>

cache_clear ==
    /\ cache_files' = [key \in {} |-> key]
    /\ metadata' = NewMetadata
    /\ UNCHANGED <<stats, now, response>>

\* the totals of get_stats (the size of the files on disk is left out)
get_stats ==
    [ hits           |-> stats.hits,
      misses         |-> stats.misses,
      items          |-> stats.items,
      total_queries  |-> Cardinality(DOMAIN metadata.queries),
      total_articles |-> metadata.total_articles ]

clock_advance(hours) ==
    /\ now + hours <= MaxClock
    /\ now' = now + hours
    /\ UNCHANGED <<cache_files, metadata, stats, response>>

\* POST /articles: is the request answered from the cache
answered_from_cache(query, language, force_refresh) ==
    /\ ~force_refresh
    /\ cache_get_result(query, language).found
    /\ cache_get_result(query, language).articles # <<>>

\* POST /articles
get_articles(query, language, force_refresh) ==
    LET looked == IF force_refresh THEN stats ELSE stats_after_get(query, language) IN
    /\ force_refresh \/ stats.hits + stats.misses < MaxGets
    /\ IF answered_from_cache(query, language, force_refresh)
       THEN /\ response' = Response("articles", "cache",
                                 cache_get_result(query, language).articles)
            /\ stats' = looked
            /\ UNCHANGED <<cache_files, metadata>>
       ELSE \/ \E articles \in ArticleLists :
                 /\ stats.items < MaxSets
                 /\ cache_files' = files_after_set(query, language, articles, FetchLogs)
                 /\ metadata' = metadata_after_set(query, language, articles)
                 /\ stats' = stats_after_set(looked)
                 /\ response' = Response("articles", "fresh", articles)
            \/ \* agent.get_content raises: HTTP 500
               /\ response' = Response("articles", "error", <<>>)
               /\ stats' = looked
               /\ UNCHANGED <<cache_files, metadata>>
    /\ UNCHANGED now

(***************************************************************************)
(* Synthesis: ContentAgent.group_and_rewrite_articles                      *)
(***************************************************************************)
\* a caption that is a string
Caption(words) == [kind |-> "text", words |-> words]

ImageSection(content, caption, order) ==
    [ContentSection("image", content, order) EXCEPT !.caption = Caption(caption)]

Article3 ==
    ArticleContent(<<"t3">>, "u3", "s3", "en", NoneValue,
                   <<ImageSection(<<"i">>, <<"alt">>, 0), ContentSection("text", <<"r">>, 1)>>,
                   <<"sports">>)

SynthArticles == {Article1, Article2, Article3}

\* what self.llm.ainvoke can do: raise, answer without text, answer with text
NotCalled == [kind |-> "not called", content |-> <<>>]

LLMRaises == [kind |-> "raise", content |-> <<>>]

LLMNoText == [kind |-> "none", content |-> <<>>]

LLMText(text) == [kind |-> "text", content |-> text]

ResponseTexts ==
    { <<"TITLE:", " ", "T", "\n", "\n", "CONTENT:", "\n", "#", "H", "\n", "p1", "\n",
        "#", "H2", "\n", "p2", "\n", "KEY_VOCABULARY:", "\n", "-", "w", ":", "d">>,
      <<"TITLE:", "T", "\n", "CONTENT:", "H", "\n", "=", "\n", "p1">>,
      <<"CONTENT:", "p1", "\n", "KEY_VOCABULARY:">>,
      <<"TITLE:", "T", "\n", "p1">>,
      <<"TITLE:", "T", "\n", "CONTENT:", "#", "H">>,
      <<"p1">>,
      <<>> }

LLMOutcomes == {LLMRaises, LLMNoText} \cup {LLMText(text) : text \in ResponseTexts}

\* the position of the first occurrence of a token, 0 if there is none
IndexOf(text, token) ==
    IF Contains(text, token)
    THEN CHOOSE k \in 1..Len(text) :
            text[k] = token /\ \A j \in 1..(k - 1) : text[j] # token
    ELSE 0

\* text.split(token, 1)[1] and text.split(token, 1)[0]
split_after(text, token) == SubSeq(text, IndexOf(text, token) + 1, Len(text))

split_before(text, token) ==
    IF Contains(text, token) THEN SubSeq(text, 1, IndexOf(text, token) - 1) ELSE text

\* text.split("\n")
RECURSIVE split_lines(_)
split_lines(text) ==
    IF Contains(text, "\n")
    THEN <<split_before(text, "\n")>> \o split_lines(split_after(text, "\n"))
    ELSE <<text>>

first_three(topic_list) ==
    SubSeq(topic_list, 1, IF Len(topic_list) < 3 THEN Len(topic_list) ELSE 3)

\* the title after TITLE:, empty when there is none
title_match(response_text) ==
    IF Contains(response_text, "TITLE:")
    THEN strip(split_before(strip(split_after(response_text, "TITLE:")), "\n"))
    ELSE <<>>

parsed_title(response_text, topic_list) ==
    IF title_match(response_text) # <<>>
    THEN title_match(response_text)
    ELSE <<"Article about">> \o first_three(topic_list)

\* the text after CONTENT: and before KEY_VOCABULARY:, empty when there is none
content_match(response_text) ==
    IF Contains(response_text, "CONTENT:")
    THEN LET content_candidate == split_after(response_text, "CONTENT:") IN
         IF Contains(content_candidate, "KEY_VOCABULARY:")
         THEN strip(split_before(content_candidate, "KEY_VOCABULARY:"))
         ELSE content_candidate
    ELSE <<>>

RECURSIVE lstrip_hashes(_)
lstrip_hashes(line) ==
    IF line # <<>> /\ Head(line) = "#" THEN lstrip_hashes(Tail(line)) ELSE line

\* a line that opens a section: a # heading, or an underline of = signs
starts_section(line, current_content) ==
    \/ line # <<>> /\ line[1] = "#"
    \/ /\ line # <<>>
       /\ \A k \in 1..Len(line) : line[k] = "="
       /\ current_content # <<>>

\* append the section collected so far: its heading, if any, and its text
save_section(acc) ==
    LET heading == IF acc.current_section # <<>>
                   THEN <<ContentSection("heading", acc.current_section, acc.order)>>
                   ELSE <<>>
        order == acc.order + Len(heading)
    IN  [acc EXCEPT !.content_sections =
                        @ \o heading
                          \o <<ContentSection("text", strip(acc.current_content), order)>>,
                    !.order = order + 1,
                    !.current_content = <<>>]

\* one turn of the loop over the lines of the content
section_line(acc, raw_line) ==
    LET line == strip(raw_line) IN
    IF starts_section(line, acc.current_content)
    THEN LET saved == IF acc.current_content # <<>> THEN save_section(acc) ELSE acc IN
         [saved EXCEPT !.current_section =
                          IF line[1] = "#" THEN strip(lstrip_hashes(line))
                                           ELSE strip(acc.prev_line)]
    ELSE [acc EXCEPT !.prev_line = line, !.current_content = @ \o line \o <<"\n">>]

RECURSIVE section_lines(_, _)
section_lines(acc, lines) ==
    IF lines = <<>> THEN acc
    ELSE section_lines(section_line(acc, Head(lines)), Tail(lines))

parsed_sections(response_text) ==
    IF content_match(response_text) # <<>>
    THEN LET acc == section_lines([current_section  |-> <<>>,
                                   current_content  |-> <<>>,
                                   order            |-> 0,
                                   content_sections |-> <<>>,
                                   prev_line        |-> <<>>],
                                  split_lines(content_match(response_text)))
         IN  IF acc.current_content # <<>>
             THEN save_section(acc).content_sections
             ELSE acc.content_sections
    ELSE <<ContentSection("text", <<"Content could not be properly extracted">>, 0)>>

\* the article built from a response that parsed; the vocabulary list the
\* code collects is not part of ArticleContent and is dropped
rewritten_article(response_text, language, topic_list) ==
    ArticleContent(parsed_title(response_text, topic_list), "",
                   "AI-generated from multiple sources", language, DateTime(now),
                   parsed_sections(response_text), topic_list)

\* the heading of one source and its text sections, numbered from order on
source_sections(article, i, order) ==
    LET texts == SelectSeq(article.content, LAMBDA section : section.type = "text") IN
    <<ContentSection("heading", <<"Source", ToString(i), ":">> \o article.title, order)>>
    \o [k \in 1..Len(texts) |-> ContentSection("text", texts[k].content, order + k)]

RECURSIVE fallback_sources(_, _, _)
fallback_sources(articles, i, order) ==
    IF i > Len(articles) THEN <<>>
    ELSE LET own == source_sections(articles[i], i, order) IN
         own \o fallback_sources(articles, i + 1, order + Len(own))

fallback_sections(articles) ==
    <<ContentSection("heading", <<"Synthesized Article">>, 0),
      ContentSection("text", <<"This article combines information">>, 1)>>
    \o fallback_sources(articles, 1, 2)

\* the article built when parsing the response raised
fallback_article(articles, language, topic_list) ==
    ArticleContent(<<"Synthesized Article on">> \o first_three(topic_list), "",
                   "AI-generated from multiple sources", language, DateTime(now),
                   fallback_sections(articles), topic_list)

\* topics.update(article.topics) over all articles
collected_topics(articles) ==
    UNION { {articles[k].topics[n] : n \in 1..Len(articles[k].topics)} :
            k \in 1..Len(articles) }

\* list(topics): the elements of the set, in some order
Orderings(S) ==
    { order \in [1..Cardinality(S) -> S] :
        \A j, k \in 1..Cardinality(S) : j # k => order[j] # order[k] }

Pending == [state |-> "pending", path |-> "none", articles |-> <<>>]

Returned(path, articles) == [state |-> "returned", path |-> path, articles |-> articles]

\* what the call returns, by what the llm call did
synthesis_result(args, outcome, topic_list) ==
    IF outcome.kind = "raise"
    THEN Returned("originals", args.articles)
    ELSE IF outcome.kind = "none"
    THEN Returned("fallback", <<fallback_article(args.articles, args.language, topic_list)>>)
    ELSE Returned("parsed", <<rewritten_article(outcome.content, args.language, topic_list)>>)

group_and_rewrite_articles ==
    /\ synth_returned.state = "pending"
    /\ IF synth_args.articles = <<>>
       THEN /\ synth_llm' = NotCalled
            /\ synth_returned' = Returned("empty", <<>>)
       ELSE \E outcome \in LLMOutcomes,
               topic_list \in Orderings(collected_topics(synth_args.articles)) :
                /\ synth_llm' = outcome
                /\ synth_returned' = synthesis_result(synth_args, outcome, topic_list)
    /\ UNCHANGED synth_args

SynthIdle ==
    /\ synth_args = [articles |-> <<>>, language |-> "en", target_difficulty |-> "intermediate"]
    /\ synth_llm = NotCalled
    /\ synth_returned = Pending

SynthInit ==
    /\ synth_args \in [articles          : SeqsUpTo(SynthArticles, MaxArticles),
                       language          : {"en", "ko"},
                       target_difficulty : {Difficulties[k] : k \in 1..Len(Difficulties)}]
    /\ synth_llm = NotCalled
    /\ synth_returned = Pending

SynthNext == group_and_rewrite_articles

(***************************************************************************)
(* Extraction: the extract_content tool                                    *)
(***************************************************************************)
\* urls, with what urlparse makes of them: the source (netloc without
\* "www."), its first label and the top-level domain
Sites ==
    { [url |-> "http://www.site.com/a", source |-> "site.com", label |-> "site", tld |-> "com"],
      [url |-> "http://news.kr/a", source |-> "news.kr", label |-> "news", tld |-> "kr"] }

PageTitles == { <<"the">>, <<"title">> }

\* the elements find_all returns from the main content area
Element(name, text, src, alt) == [name |-> name, text |-> text, src |-> src, alt |-> alt]

PageElements(title) ==
    { Element("h1", title, "", <<>>),
      Element("h2", <<" ", "x">>, "", <<>>),
      Element("p", <<" ">>, "", <<>>),
      Element("p", <<"y", " ">>, "", <<>>),
      Element("img", <<>>, "", <<"alt">>),
      Element("img", <<>>, "i.png", <<"alt">>) }

\* article.text
PageTexts ==
    { <<>>,
      <<" ">>,
      <<"x">>,
      <<"x", "\n\n", " ", "\n\n", "y">> }

Pages ==
    { page \in [site          : Sites,
                title         : PageTitles,
                html          : UNION { SeqsUpTo(PageElements(title), MaxElements) :
                                        title \in PageTitles },
                text          : PageTexts,
                long_text     : BOOLEAN,
                meta_keywords : { <<>>, <<"health">> },
                meta_lang     : { "", "ko" }] :
        /\ page.html \in SeqsUpTo(PageElements(page.title), MaxElements)
        /\ page.long_text => page.text # <<>> }

\* requests.get on the page when newspaper found no text
DirectRequests == { "raise", "not 200", "lang", "no lang" }

\* the lang attribute of the html tag, when there is one
HtmlLang == <<"ko", "-", "KR">>

\* llm.predict on the topic prompt: a raise, or the items of the answer
TopicAnswers == { <<"raise">>, <<>>, <<"food">> }

detect_language(page, direct) ==
    IF page.text = <<>>
    THEN IF direct = "lang" THEN Head(split_before(HtmlLang, "-"))
         ELSE IF direct = "no lang" THEN (IF page.site.tld = "kr" THEN "ko" ELSE "en")
         ELSE "en"
    ELSE LET language == IF page.meta_lang # "" THEN page.meta_lang ELSE "en" IN
         IF language = "en" /\ page.site.tld = "kr" THEN "ko" ELSE language

HeadingNames == {"h1", "h2", "h3", "h4", "h5", "h6"}

\* the section an element contributes, if any
element_sections(element, page, order) ==
    IF element.name \in HeadingNames /\ strip(element.text) # <<>>
    THEN IF strip(element.text) # page.title
         THEN <<ContentSection("heading", strip(element.text), order)>>
         ELSE <<>>
    ELSE IF element.name = "p" /\ strip(element.text) # <<>>
    THEN <<ContentSection("text", strip(element.text), order)>>
    ELSE IF element.name = "img" /\ element.src # ""
    THEN <<ImageSection(<<page.site.url, element.src>>, element.alt, order)>>
    ELSE <<>>

RECURSIVE structured_sections(_, _, _)
structured_sections(elements, page, order) ==
    IF elements = <<>> THEN <<>>
    ELSE LET own == element_sections(Head(elements), page, order) IN
         own \o structured_sections(Tail(elements), page, order + Len(own))

\* text.split('\n\n')
RECURSIVE split_paragraphs(_)
split_paragraphs(text) ==
    IF Contains(text, "\n\n")
    THEN <<split_before(text, "\n\n")>> \o split_paragraphs(split_after(text, "\n\n"))
    ELSE <<text>>

\* the chunks of the raw text, numbered whether they are blank or not
paragraph_sections_by_chunk(text) ==
    LET chunks == split_paragraphs(text)
        kept == SelectSeq([k \in 1..Len(chunks) |-> [chunk |-> chunks[k], index |-> k - 1]],
                          LAMBDA item : strip(item.chunk) # <<>>)
    IN  [k \in 1..Len(kept) |-> ContentSection("text", strip(kept[k].chunk), kept[k].index)]

\* the non-blank paragraphs of the raw text, numbered as enumerate does
paragraph_sections(text) ==
    LET paragraphs == SelectSeq(split_paragraphs(text), LAMBDA chunk : strip(chunk) # <<>>) IN
    [k \in 1..Len(paragraphs) |-> ContentSection("text", strip(paragraphs[k]), k - 1)]

PlaceholderSection ==
    ContentSection("text", <<"The content could not be extracted from this webpage.">>, 0)

\* the fallback chain: which step produced the sections, and the sections
extracted_sections(page) ==
    LET structured == IF page.html # <<>> THEN structured_sections(page.html, page, 0)
                      ELSE <<>>
        from_text == IF structured = <<>> /\ page.text # <<>>
                     THEN paragraph_sections(page.text)
                     ELSE <<>>
    IN  IF structured # <<>> THEN [path |-> "structured", content_sections |-> structured]
        ELSE IF from_text # <<>> THEN [path |-> "text", content_sections |-> from_text]
        ELSE [path |-> "placeholder", content_sections |-> <<PlaceholderSection>>]

CommonWords == {"the", "and", "that", "this", "with", "from"}

\* the topics of the model call, made when the text is long enough; none when
\* the call raises
llm_topics(page, answer) ==
    IF page.text # <<>> /\ page.long_text /\ answer # <<"raise">> THEN answer ELSE <<>>

\* article.meta_keywords.split(','): newspaper keeps the meta keywords as a
\* list of strings, and a list has no split, so the line raises AttributeError
\* whenever it is reached with keywords present
meta_keywords_split_raises(page, answer) ==
    llm_topics(page, answer) = <<>> /\ page.meta_keywords # <<>>

\* the topic chain: model answer, title words and source, the minimal set
extracted_topics(page, answer) ==
    LET from_llm == llm_topics(page, answer)
        from_title == first_three(SelectSeq(page.title, LAMBDA word : word \notin CommonWords))
                      \o (IF page.site.source # "" THEN <<page.site.label>> ELSE <<>>)
    IN  IF from_llm # <<>> THEN from_llm
        ELSE IF from_title # <<>> THEN from_title
        ELSE <<"news", "article">>

Raised == [state |-> "raised", path |-> "none", articles |-> <<>>]

\* @retry(stop=stop_after_attempt(3),
\*        wait=wait_exponential(multiplier=1, min=2, max=10),
\*        retry=retry_if_exception_type((requests.RequestException, ConnectionError)))
STOP_AFTER_ATTEMPT == 3

WAIT_MULTIPLIER == 1

WAIT_MIN == 2

WAIT_MAX == 10

RECURSIVE power_of_two(_)
power_of_two(n) == IF n = 0 THEN 1 ELSE 2 * power_of_two(n - 1)

\* the seconds to sleep after the attempt of the given number (from 1)
wait_exponential(attempt_number) ==
    LET result == WAIT_MULTIPLIER * power_of_two(attempt_number - 1)
        capped == IF result < WAIT_MAX THEN result ELSE WAIT_MAX
    IN  IF capped > WAIT_MIN THEN capped ELSE WAIT_MIN

\* how an attempt ends without a result:
\*   "download failed": article.download() met a network error, which it
\*       records; article.parse() then raises ArticleException
\*   "parse failed": any other exception of the body
\*   "request failed": requests.get raised a RequestException
AttemptFailures == {"download failed", "parse failed", "request failed"}

\* the failures whose exception retry_if_exception_type matches
retried_failures == {"request failed"}

\* one attempt of extract_content under its retry decorator
extract_content ==
    /\ extract_returned.state = "pending"
    /\ \/ \* an exception the decorator does not retry
          \E failure \in AttemptFailures \ retried_failures :
             /\ extract_log' = Append(extract_log, failure)
             /\ extract_returned' = Raised
             /\ UNCHANGED extract_waits
       \/ \* the direct request, made when newspaper found no text, raises
          \E failure \in retried_failures :
             /\ extract_page.text = <<>>
             /\ extract_log' = Append(extract_log, failure)
             /\ IF Len(extract_log) + 1 < STOP_AFTER_ATTEMPT
                THEN /\ extract_waits' =
                            Append(extract_waits, wait_exponential(Len(extract_log) + 1))
                     /\ UNCHANGED extract_returned
                ELSE /\ extract_returned' = Raised
                     /\ UNCHANGED extract_waits
       \/ \* the meta keywords step of the topic chain raises
          \E answer \in TopicAnswers :
             /\ meta_keywords_split_raises(extract_page, answer)
             /\ extract_log' = Append(extract_log, "topics failed")
             /\ extract_returned' = Raised
             /\ UNCHANGED extract_waits
       \/ \E direct \in DirectRequests, answer \in TopicAnswers :
             /\ direct = "raise" => extract_page.text # <<>>
             /\ ~meta_keywords_split_raises(extract_page, answer)
             /\ extract_log' = Append(extract_log, "returned")
             /\ extract_returned' =
                   Returned(extracted_sections(extract_page).path,
                            <<ArticleContent(extract_page.title,
                                             extract_page.site.url,
                                             extract_page.site.source,
                                             detect_language(extract_page, direct),
                                             DateTime(now),
                                             extracted_sections(extract_page).content_sections,
                                             extracted_topics(extract_page, answer))>>)
             /\ UNCHANGED extract_waits
    /\ UNCHANGED extract_page

ExtractIdle ==
    /\ extract_page = [site |-> "none"]
    /\ extract_returned = Pending
    /\ extract_log = <<>>
    /\ extract_waits = <<>>

ExtractInit ==
    /\ extract_page \in Pages
    /\ extract_returned = Pending
    /\ extract_log = <<>>
    /\ extract_waits = <<>>

ExtractNext == extract_content

(***************************************************************************)
(* Tag store: DatabaseService tag operations and the duplicate merger      *)
(***************************************************************************)
\* the ObjectIds insert_one hands out, in order
TagIdPool == <<"tag1", "tag2", "tag3", "tag4">>

TagIdPoolSet == { TagIdPool[k] : k \in 1..Len(TagIdPool) }

\* str.lower() on the tag names in use ("gisul" stands for the Korean word)
tag_lower(name) == IF name = "Technology" THEN "technology" ELSE name

NoName == ""

NoTranslations == [language \in {} |-> ""]

\* canonical names create_tag approves on its own
auto_approved_categories == {"technology", "gisul"}

\* the persisted articles tags are attached to
TaggedArticles ==
    { RawDocument(OperationId(0, 1), "ko", k, [url |-> u, title |-> "t1", has_text |-> TRUE]) :
        <<k, u>> \in { <<1, "u1">>, <<2, "u2">> } }

ArticleIds == { d._id : d \in TaggedArticles }

\* the calls of create_tag
CreateTagCall(name, language, english_name, article_ids) ==
    [ name         |-> name,
      language     |-> language,
      english_name |-> english_name,
      translations |-> NoTranslations,
      article_ids  |-> article_ids ]

CreateTagCalls ==
    { CreateTagCall("gisul", "ko", "Technology", <<>>),
      CreateTagCall("gisul", "ko", NoName, <<>>),
      CreateTagCall("technology", "en", NoName, <<>>),
      CreateTagCall("cooking", "en", NoName, <<>>) }
    \cup { CreateTagCall("technology", "en", NoName, <<id>>) : id \in ArticleIds }

tag_ids_of(article_id) ==
    LET found == { d \in articles_collection : d._id = article_id } IN
    IF found = {} THEN <<>> ELSE (CHOOSE d \in found : TRUE).tag_ids

\* update_one({"_id": article_id}, {"$set": {"tag_ids": tag_ids}})
set_tag_ids(collection, article_id, tag_ids) ==
    { IF d._id = article_id THEN [d EXCEPT !.tag_ids = tag_ids] ELSE d : d \in collection }

\* $addToSet and $pull on a tag_ids list
add_to_set(tag_ids, tag_id) ==
    IF Contains(tag_ids, tag_id) THEN tag_ids ELSE Append(tag_ids, tag_id)

pull(tag_ids, tag_id) == SelectSeq(tag_ids, LAMBDA id : id # tag_id)

\* a $inc that leaves the tag's own count alone
inc_other_counts(collection, tag_id, by) ==
    [id \in DOMAIN collection |->
        IF id # tag_id THEN [collection[id] EXCEPT !.article_count = @ + by]
        ELSE collection[id]]

\* update_one({"_id": tag_id}, {"$inc": {"article_count": by}})
inc_article_count(collection, tag_id, by) ==
    IF tag_id \in DOMAIN collection
    THEN [collection EXCEPT ![tag_id].article_count = @ + by]
    ELSE collection

RECURSIVE inc_article_counts(_, _, _)
inc_article_counts(collection, tag_ids, by) ==
    IF tag_ids = <<>> THEN collection
    ELSE inc_article_counts(inc_article_count(collection, Head(tag_ids), by), Tail(tag_ids), by)

TagOp(op, tag, article) == [op |-> op, tag |-> tag, article |-> article]

NoTagOp == TagOp("none", "", <<>>)

\* one more tag operation, within the budget
tag_op(op, tag, article) ==
    /\ tag_ops < MaxTagOps
    /\ tag_ops' = tag_ops + 1
    /\ last_tag_op' = TagOp(op, tag, article)

\* the document create_tag inserts
new_tag(call) ==
    LET canonical_name == IF call.english_name # NoName THEN tag_lower(call.english_name)
                          ELSE tag_lower(call.name)
        translations == IF /\ call.language # "en"
                           /\ call.language \notin DOMAIN call.translations
                           /\ call.english_name # NoName
                        THEN (call.language :> tag_lower(call.name)) @@ call.translations
                        ELSE call.translations
    IN  [ name              |-> canonical_name,
          language_specific |-> call.language # "en",
          translations      |-> translations,
          original_language |-> call.language,
          article_count     |-> Len(call.article_ids),
          active            |-> canonical_name \in auto_approved_categories,
          auto_approved     |-> canonical_name \in auto_approved_categories ]

RECURSIVE add_tag_to_articles(_, _, _)
add_tag_to_articles(collection, tag_id, article_ids) ==
    IF article_ids = <<>> THEN collection
    ELSE add_tag_to_articles(
             set_tag_ids(collection, Head(article_ids),
                         add_to_set((CHOOSE d \in collection : d._id = Head(article_ids)).tag_ids,
                                    tag_id)),
             tag_id, Tail(article_ids))

\* create_tag: insert the document, then add_tag_to_article for each article
create_tag(call) ==
    LET tag_id == TagIdPool[tags_created + 1] IN
    /\ tags_created < MaxTags
    /\ tag_op("create_tag", tag_id, <<>>)
    /\ tags_created' = tags_created + 1
    /\ tags_collection' =
           inc_article_counts((tag_id :> new_tag(call)) @@ tags_collection,
                              [k \in 1..Len(call.article_ids) |-> tag_id], 1)
    /\ articles_collection' = add_tag_to_articles(articles_collection, tag_id, call.article_ids)

add_tag_to_article(tag_id, article_id) ==
    /\ tag_op("add_tag_to_article", tag_id, article_id)
    /\ articles_collection' =
           set_tag_ids(articles_collection, article_id,
                       add_to_set(tag_ids_of(article_id), tag_id))
    /\ tags_collection' = inc_article_count(tags_collection, tag_id, 1)
    /\ UNCHANGED tags_created

remove_tag_from_article(tag_id, article_id) ==
    /\ tag_op("remove_tag_from_article", tag_id, article_id)
    /\ articles_collection' =
           set_tag_ids(articles_collection, article_id, pull(tag_ids_of(article_id), tag_id))
    /\ tags_collection' = inc_article_count(tags_collection, tag_id, 0 - 1)
    /\ UNCHANGED tags_created

update_article_tags(article_id, tag_ids) ==
    /\ tag_op("update_article_tags", "", article_id)
    /\ articles_collection' = set_tag_ids(articles_collection, article_id, tag_ids)
    /\ tags_collection' =
           inc_article_counts(
               inc_article_counts(tags_collection, tag_ids_of(article_id), 0 - 1),
               tag_ids, 1)
    /\ UNCHANGED tags_created

\* rewrite_step: a synthesized article is inserted with the tag ids of Tagging
persist_rewritten(article, difficulty, tag_ids) ==
    /\ ~id_taken(RewrittenId(article.url, difficulty))
    /\ tag_op("persist_rewritten", "", RewrittenId(article.url, difficulty))
    /\ articles_collection' =
           articles_collection
           \cup {RewrittenDocument(OperationId(0, 1), article, difficulty, tag_ids)}
    /\ UNCHANGED <<tags_collection, tags_created>>

\* the tag objects Tagging hands to extract_tags_from_article
TagObjects ==
    { [name |-> "technology", original_language |-> "ko", translations |-> ("ko" :> "gisul")],
      [name |-> "Technology", original_language |-> "en", translations |-> NoTranslations],
      [name |-> "cooking", original_language |-> "en", translations |-> NoTranslations] }

\* the tags whose canonical name is the given one
tags_named(collection, name) == { id \in DOMAIN collection : collection[id].name = name }

\* extract_tags_from_article, for one tag object: use the tag of that name
\* if there is one, adding the new translations, else create it
store_generated_tag(tag_obj) ==
    LET existing == { id \in DOMAIN tags_collection :
                        tag_lower(tags_collection[id].name) = tag_lower(tag_obj.name) } IN
    IF existing # {}
    THEN \E id \in existing :
            /\ tag_op("store_generated_tag", id, <<>>)
            /\ tags_collection' =
                   [tags_collection EXCEPT ![id].translations = tag_obj.translations @@ @]
            /\ UNCHANGED <<articles_collection, tags_created>>
    ELSE create_tag([ name         |-> tag_obj.name,
                      language     |-> tag_obj.original_language,
                      english_name |-> NoName,
                      translations |-> tag_obj.translations,
                      article_ids  |-> <<>> ])

\* TAGS_TO_MERGE: canonical names with their alternative names
TAGS_TO_MERGE == { <<"technology", {"gisul"}>> }

\* a translation is taken from a merged tag when there is none yet
RECURSIVE merge_translations(_, _, _)
merge_translations(all_translations, collection, tag_ids) ==
    IF tag_ids = <<>> THEN all_translations
    ELSE LET translations == collection[Head(tag_ids)].translations
             merged == [lang \in DOMAIN all_translations \cup DOMAIN translations |->
                           IF lang \in DOMAIN all_translations
                              /\ (all_translations[lang] # "" \/ lang \notin DOMAIN translations)
                           THEN all_translations[lang]
                           ELSE translations[lang]]
         IN  merge_translations(merged, collection, Tail(tag_ids))

\* the translations of the surviving tag
merged_translations(all_translations, collection, tag_ids) ==
    merge_translations(all_translations, collection, tag_ids)

\* an article that names a merged tag gets the canonical id in its place,
\* unless it names the canonical tag already
retag(d, canonical_id, merged_ids) ==
    IF (\E k \in 1..Len(d.tag_ids) : d.tag_ids[k] \in merged_ids)
       /\ ~Contains(d.tag_ids, canonical_id)
    THEN [d EXCEPT !.tag_ids =
             Append(SelectSeq(@, LAMBDA id : id \notin merged_ids), canonical_id)]
    ELSE d

\* the tags merge_tag_group finds under the canonical name, and the heads
\* of that list once it is sorted by article count
most_used(canonical_tags) ==
    { id \in canonical_tags :
        \A other \in canonical_tags :
            tags_collection[other].article_count <= tags_collection[id].article_count }

merge_tag_group(canonical_name, alt_names) ==
    LET canonical_tags == tags_named(tags_collection, canonical_name)
        alt_tags == { id \in DOMAIN tags_collection : tags_collection[id].name \in alt_names }
    IN
    IF canonical_tags = {} \/ (Cardinality(canonical_tags) = 1 /\ alt_tags = {})
    THEN \* nothing to merge: the function returns
         /\ tag_op("merge_tag_group", "", <<>>)
         /\ UNCHANGED <<tags_collection, articles_collection, tags_created>>
    ELSE \E canonical_id \in most_used(canonical_tags) :
          LET merged_ids == (canonical_tags \ {canonical_id}) \cup alt_tags
              retagged == { retag(d, canonical_id, merged_ids) : d \in articles_collection }
              new_count == Cardinality({ d \in retagged : Contains(d.tag_ids, canonical_id) })
          IN  /\ \E tags_to_merge \in Orderings(merged_ids) :
                    tags_collection' =
                        [id \in DOMAIN tags_collection \ merged_ids |->
                            IF id = canonical_id
                            THEN [tags_collection[id] EXCEPT
                                     !.translations =
                                         merged_translations(@, tags_collection, tags_to_merge),
                                     !.article_count = new_count]
                            ELSE tags_collection[id]]
              /\ articles_collection' = retagged
              /\ tag_op("merge_tag_group", canonical_id, <<>>)
              /\ UNCHANGED tags_created

TagIdle ==
    /\ tags_collection = [id \in {} |-> id]
    /\ tags_created = 0
    /\ tag_ops = 0
    /\ last_tag_op = NoTagOp

TagInit ==
    /\ TagIdle
    /\ articles_collection = TaggedArticles
    /\ bulk_fetch_operations = [id \in {} |-> id]
    /\ tasks = [id \in {} |-> id]
    /\ wall_clock = 0
    /\ discovered = 0
    /\ faults = 0

TagNext ==
    \/ \E call \in CreateTagCalls : create_tag(call)
    \/ \E tag_id \in DOMAIN tags_collection, article_id \in ArticleIds :
           add_tag_to_article(tag_id, article_id)
    \/ \E tag_id \in DOMAIN tags_collection, article_id \in ArticleIds :
           remove_tag_from_article(tag_id, article_id)
    \/ \E article_id \in ArticleIds, tag_ids \in SeqsUpTo(DOMAIN tags_collection, 1) :
           update_article_tags(article_id, tag_ids)
    \/ \E d \in { a \in TaggedArticles : a.url = "u1" },
          tag_ids \in SeqsUpTo(DOMAIN tags_collection, 1) :
           persist_rewritten(d, "beginner", tag_ids)
    \/ \E tag_obj \in TagObjects : store_generated_tag(tag_obj)
    \/ \E group \in TAGS_TO_MERGE : merge_tag_group(group[1], group[2])

(***************************************************************************)
(* Discovery: search_web (src/src/scrapers/agent.py)                       *)
(* Texts are token sequences; a relevance is kept in hundredths, the       *)
(* precision of the "[Relevance: x.xx]" tag it travels in.                 *)
(***************************************************************************)
RESULT_LIMIT == 10

GOOGLE_RELEVANCE == 75

MIN_RESULTS == 5

\* the queries, as their terms (query.split())
SearchQueries == { <<>>, <<"ai">>, <<"climate", "policy">> }

\* "ko" and "en" have feeds and default sites, "fr" has neither
SearchLanguages == {"ko", "en", "fr"}

FeedEntry(title, description, link) ==
    [title |-> title, description |-> description, link |-> link]

\* the entries the feeds of the language may deliver
FeedEntries ==
    { FeedEntry(<<"ai">>, <<"ai">>, "u1"),
      FeedEntry(<<>>, <<"climate">>, "u2"),
      FeedEntry(<<"climate", "policy">>, <<>>, "u1"),
      FeedEntry(<<"policy">>, <<"policy">>, ""),
      FeedEntry(<<"climate">>, <<"policy">>, "u3") }

FeedUrls == <<"f1", "f2", "f3", "f4", "f5", "f6", "f7", "f8", "f9", "f10", "f11">>

\* a feed with many entries on the same subject
LongFeed == [k \in 1..Len(FeedUrls) |-> FeedEntry(<<"climate">>, <<>>, FeedUrls[k])]

\* what service.cse().list(...).execute() delivers
GoogleItem(title, link, snippet) == [title |-> title, link |-> link, snippet |-> snippet]

GoogleAnswers ==
    { <<>>,
      <<GoogleItem(<<"ai">>, "u1", <<"s">>)>>,
      <<GoogleItem(<<"ai">>, "g1", <<"s">>), GoogleItem(<<>>, "", <<>>)>> }

\* the secondary search: no keys configured, the request raises, or an answer
GoogleOutcomes ==
    { [kind |-> "no keys", items |-> <<>>], [kind |-> "raise", items |-> <<>>] }
    \cup { [kind |-> "items", items |-> items] : items \in GoogleAnswers }

\* the re-scoring: no key configured, predict raises, the response is not
\* JSON, or it is an array of {id, relevance}; "rising" scores the
\* article of id i with i/10, "first" has a score for article 0 only,
\* "null" has relevance null for some article
ScoringOutcomes == {"no key", "raise", "not json", "rising", "first", "null"}

SearchCalls ==
    [ query         : SearchQueries,
      language      : SearchLanguages,
      min_relevance : {25},
      fetch_all     : BOOLEAN,
      entries       : SeqsUpTo(FeedEntries, MaxEntries),
      long_feed     : BOOLEAN,
      google        : GoogleOutcomes,
      scoring       : ScoringOutcomes ]

SearchResult(title, url, snippet, relevance) ==
    [title |-> title, url |-> url, snippet |-> snippet, relevance |-> relevance]

NoTag == 0 - 1

\* a snippet: the relevance of its "[Relevance: x.xx] " prefix, and the rest
Snippet(tag, text) == [tag |-> tag, text |-> text]

terms_in(query_terms, text) ==
    Cardinality({ k \in 1..Len(query_terms) : Contains(text, query_terms[k]) })

match_score(query_terms, entry) ==
    2 * terms_in(query_terms, entry.title) + terms_in(query_terms, entry.description)

max_score(query_terms) == Len(query_terms) * 2

\* f"{relevance:.2f}", in hundredths
format_relevance(score, max) ==
    IF max > 0 THEN (200 * score + max) \div (2 * max) ELSE 0

\* fetch_all or relevance > min_relevance
qualifies(call, entry) ==
    \/ call.fetch_all
    \/ /\ max_score(call.query) > 0
       /\ 100 * match_score(call.query, entry) > call.min_relevance * max_score(call.query)

\* the results of the feeds: entries that qualify and have a link
RECURSIVE feed_results(_, _)
feed_results(call, entries) ==
    IF entries = <<>> THEN <<>>
    ELSE LET entry == Head(entries)
             rest == feed_results(call, Tail(entries))
         IN  IF qualifies(call, entry) /\ entry.link # ""
             THEN <<SearchResult(entry.title, entry.link,
                                 Snippet(format_relevance(match_score(call.query, entry),
                                                          max_score(call.query)),
                                         entry.description \o <<"...">>),
                                 0)>> \o rest
             ELSE rest

TechTerms == {"ai"}

tech_related(query) == \E k \in 1..Len(query) : query[k] \in TechTerms

google_results(call, results) ==
    IF (Len(results) < MIN_RESULTS \/ tech_related(call.query)) /\ call.google.kind = "items"
    THEN [k \in 1..Len(call.google.items) |->
             SearchResult(call.google.items[k].title, call.google.items[k].link,
                          Snippet(GOOGLE_RELEVANCE, call.google.items[k].snippet), 0)]
    ELSE <<>>

default_sites(language) ==
    IF language = "ko"
    THEN << <<"https://www.chosun.com", "chosun">>, <<"https://www.hani.co.kr", "hani">> >>
    ELSE << <<"https://www.bbc.com/news/world", "BBC World News">>,
            <<"https://www.nytimes.com/section/world", "New York Times World News">> >>

\* no default results
no_default_results(call) == <<>>

default_results(call) ==
    LET sites == default_sites(call.language) IN
    [k \in 1..Len(sites) |->
        SearchResult(<<sites[k][2], ":">> \o call.query, sites[k][1],
                     Snippet(NoTag, <<"Find", "articles", "about">> \o call.query
                                    \o <<"on", sites[k][2]>>),
                     0)]

\* the first result of every url, in order
RECURSIVE deduplicate(_, _)
deduplicate(results, seen_urls) ==
    IF results = <<>> THEN <<>>
    ELSE IF Head(results).url \in seen_urls
         THEN deduplicate(Tail(results), seen_urls)
         ELSE <<Head(results)>> \o deduplicate(Tail(results), seen_urls \cup {Head(results).url})

\* the relevance is read back from the tag, and the tag is cut from the snippet
keyword_relevance(result) ==
    [result EXCEPT !.relevance = IF result.snippet.tag # NoTag THEN result.snippet.tag ELSE 0,
                   !.snippet = Snippet(NoTag, result.snippet.text)]

\* what id_to_score gives for the article of the given id (from 0)
id_to_score(scoring, id, relevance) ==
    CASE scoring = "rising" -> 10 * id
      [] scoring = "first" /\ id = 0 -> 150
      [] OTHER -> relevance

rescored(call, unique_results) ==
    IF call.scoring \in {"rising", "first"} /\ Len(unique_results) > 1
    THEN [k \in 1..Len(unique_results) |->
             [unique_results[k] EXCEPT !.relevance = id_to_score(call.scoring, k - 1, @)]]
    ELSE unique_results

\* list.sort(key=relevance, reverse=True): stable, highest first
RECURSIVE insert_result(_, _)
insert_result(sorted, result) ==
    IF sorted = <<>> THEN <<result>>
    ELSE IF Head(sorted).relevance >= result.relevance
         THEN <<Head(sorted)>> \o insert_result(Tail(sorted), result)
         ELSE <<result>> \o sorted

RECURSIVE insertion_sort(_)
insertion_sort(results) ==
    IF results = <<>> THEN <<>>
    ELSE insert_result(insertion_sort(SubSeq(results, 1, Len(results) - 1)),
                       results[Len(results)])

\* a sort that keeps the order of the list
unsorted(results) == results

sort_by_relevance(results) == insertion_sort(results)

unique_results(call) ==
    LET from_feeds == feed_results(call, call.entries
                                         \o (IF call.long_feed THEN LongFeed ELSE <<>>))
        results == from_feeds \o google_results(call, from_feeds)
        all_results == IF results = <<>> THEN default_results(call) ELSE results
        unique == deduplicate(all_results, {})
    IN  [k \in 1..Len(unique) |-> keyword_relevance(unique[k])]

SearchPending == [state |-> "pending", results |-> <<>>]

SearchReturned(results) == [state |-> "returned", results |-> results]

SearchRaised == [state |-> "raised", results |-> <<>>]

\* one attempt of search_web
search_web ==
    /\ search_returned.state = "pending"
    /\ LET unique == unique_results(search_args) IN
       \/ \* a null relevance makes the sort raise
          /\ search_args.scoring = "null" /\ Len(unique) > 1
          /\ search_returned' = SearchRaised
       \/ /\ ~(search_args.scoring = "null" /\ Len(unique) > 1)
          /\ LET sorted == sort_by_relevance(rescored(search_args, unique)) IN
             search_returned' =
                 SearchReturned(SubSeq(sorted, 1, IF Len(sorted) < RESULT_LIMIT
                                                  THEN Len(sorted) ELSE RESULT_LIMIT))
    /\ UNCHANGED search_args

SearchIdle ==
    /\ search_args = [query |-> <<>>]
    /\ search_returned = SearchPending

SearchInit ==
    /\ search_args \in SearchCalls
    /\ search_returned = SearchPending

SearchNext == search_web

(***************************************************************************)
(* Persists of articles keyed by url: save_article                         *)
(* (src/src/models/database.py) and the persist of the fetch phase         *)
(* (src/src/api/main.py), as coroutines that yield at every await          *)
(***************************************************************************)
PersistKinds == {"save_article", "fetch"}

PersistUrls == {"u1", "u2"}

NoId == <<>>

\* the _id insert_one gives a document that has none
ObjectId(p) == RawId(OperationId(0, p), "oid", 0)

\* the article a persist is about
persisted_article(url, p) == [url |-> url, title |-> "t1", has_text |-> TRUE]

\* article_data of save_article, stored under the given _id
article_data(_id, url, p) ==
    [RawDocument(OperationId(0, p), "en", 0, persisted_article(url, p)) EXCEPT !._id = _id]

Persist(kind, url) ==
    [kind |-> kind, url |-> url, pc |-> "find", existing |-> NoId,
     result |-> "none", returned |-> NoId]

\* a call begins: it is about to await find_one
persist_start(kind, url) ==
    LET p == Cardinality(DOMAIN persists) + 1 IN
    /\ p <= MaxPersists
    /\ persists' = (p :> Persist(kind, url)) @@ persists
    /\ UNCHANGED articles_collection

\* await articles_collection.find_one({"url": url})
persist_find(p) ==
    /\ persists[p].pc = "find"
    /\ \/ /\ find_url(persists[p].url) = {}
          /\ persists' = [persists EXCEPT ![p].pc = "write"]
       \/ \E existing \in find_url(persists[p].url) :
             persists' = [persists EXCEPT ![p].pc = "write", ![p].existing = existing._id]
    /\ UNCHANGED articles_collection

\* save_article after find_one: replace_one on the article found, else insert_one
save_article(p) ==
    /\ persists[p].kind = "save_article"
    /\ persists[p].pc = "write"
    /\ IF persists[p].existing # NoId
       THEN /\ articles_collection' =
                  { IF d._id = persists[p].existing
                    THEN article_data(d._id, persists[p].url, p)
                    ELSE d : d \in articles_collection }
            /\ persists' = [persists EXCEPT ![p].pc = "done", ![p].result = "updated",
                                            ![p].returned = persists[p].existing]
       ELSE /\ articles_collection' =
                  articles_collection \cup {article_data(ObjectId(p), persists[p].url, p)}
            /\ persists' = [persists EXCEPT ![p].pc = "done", ![p].result = "created",
                                            ![p].returned = ObjectId(p)]

\* fetch_step after find_one: count the article as skipped, else insert_one
\* under the _id f"{operation_id}-{lang}-{i}"
fetch_persist(p) ==
    /\ persists[p].kind = "fetch"
    /\ persists[p].pc = "write"
    /\ IF persists[p].existing # NoId
       THEN /\ persists' = [persists EXCEPT ![p].pc = "done", ![p].result = "skipped"]
            /\ UNCHANGED articles_collection
       ELSE /\ articles_collection' =
                  articles_collection
                  \cup {RawDocument(OperationId(0, p), "en", 1,
                                    persisted_article(persists[p].url, p))}
            /\ persists' = [persists EXCEPT ![p].pc = "done", ![p].result = "fetched",
                                            ![p].returned = RawId(OperationId(0, p), "en", 1)]

PersistIdle == persists = [p \in {} |-> p]

PersistInit == PersistIdle

PersistNext ==
    \/ \E kind \in PersistKinds, url \in PersistUrls : persist_start(kind, url)
    \/ \E p \in DOMAIN persists : persist_find(p)
    \/ \E p \in DOMAIN persists : save_article(p)
    \/ \E p \in DOMAIN persists : fetch_persist(p)

(***************************************************************************)
(* Tagging: generate_tags (src/src/utils/tag_generator.py)                 *)
(* "gisul" and "gwahak" stand for the Korean words for technology and      *)
(* science.                                                                *)
(***************************************************************************)
TagLanguages == {"en", "ko", ""}

\* the strings the model answers with
RawTags == {"Technology", "technology ", "gisul", " Gisul", "gwahak", "ko"}

LanguageTags == {"en", "english", "ko", "korean"}

\* clean_tag: strip, lower, keep alphanumerics, spaces, "-" and "_",
\* spaces to underscores, at most 50 characters
clean_tag(tag) ==
    CASE tag \in {"Technology", "technology "} -> "technology"
      [] tag \in {"gisul", " Gisul"} -> "gisul"
      [] OTHER -> tag

\* the tags of the response, or a raise of the request or of json.loads
TagResponses ==
    { [kind |-> "raise", tags |-> <<>>] }
    \cup { [kind |-> "tags", tags |-> tags] : tags \in SeqsUpTo(RawTags, MaxGenerated) }

\* the translation request: it raises, or answers with a translation of
\* every tag, with the same English word for every tag, or with fewer
\* translations than tags
TranslationAnswers == {"raise", "exact", "same word", "short"}

english_of(tag) ==
    CASE tag = "gisul" -> "Technology"
      [] tag = "gwahak" -> "science"
      [] OTHER -> tag

translate_tags_to_english(tags, source_language, answer) ==
    IF tags = <<>> THEN <<>>
    ELSE IF source_language = "en" \/ answer = "raise" THEN tags
    ELSE [k \in 1..Len(tags) |->
            CASE answer = "exact" -> clean_tag(english_of(tags[k]))
              [] answer = "same word" -> clean_tag("Technology")
              [] OTHER -> IF k = 1 THEN clean_tag(english_of(tags[k])) ELSE clean_tag(tags[k])]

\* the language is appended when no tag names a language
with_language(tags, language) ==
    IF \E k \in 1..Len(tags) : tags[k] \in LanguageTags
    THEN tags
    ELSE Append(tags, IF language # "" THEN language ELSE "en")

TagObject(name, original_language, translations) ==
    [name |-> name, original_language |-> original_language, translations |-> translations]

\* the first tag object of every name, in order
RECURSIVE unique_tags(_, _)
unique_tags(tag_objects, names) ==
    IF tag_objects = <<>> THEN <<>>
    ELSE IF Head(tag_objects).name \in names
         THEN unique_tags(Tail(tag_objects), names)
         ELSE <<Head(tag_objects)>>
              \o unique_tags(Tail(tag_objects), names \cup {Head(tag_objects).name})

first_n(seq, n) == SubSeq(seq, 1, IF Len(seq) < n THEN Len(seq) ELSE n)

generated_tags(args) ==
    IF args.response.kind = "raise"
    THEN <<TagObject(IF args.language # "" THEN args.language ELSE "en",
                     IF args.language # "" THEN args.language ELSE "en",
                     NoTranslations)>>
    ELSE LET tags == with_language(args.response.tags, args.language)
             cleaned_tags == [k \in 1..Len(tags) |-> clean_tag(tags[k])]
         IN  IF args.language # "en" /\ args.language # ""
             THEN LET translated_tags ==
                          translate_tags_to_english(cleaned_tags, args.language,
                                                    args.translation)
                  IN  [k \in 1..Len(cleaned_tags) |->
                          TagObject(translated_tags[k], args.language,
                                    (args.language :> cleaned_tags[k]))]
             ELSE first_n(unique_tags([k \in 1..Len(cleaned_tags) |->
                                          TagObject(cleaned_tags[k], "en", NoTranslations)],
                                      {}),
                          args.max_tags)

GenerateCalls ==
    [ language    : TagLanguages,
      max_tags    : 1..MaxAsked,
      response    : TagResponses,
      translation : TranslationAnswers ]

GeneratePending == [state |-> "pending", tags |-> <<>>]

\* one call of generate_tags
generate_tags ==
    /\ generate_returned.state = "pending"
    /\ generate_returned' = [state |-> "returned", tags |-> generated_tags(generate_args)]
    /\ UNCHANGED generate_args

GenerateIdle ==
    /\ generate_args = [language |-> ""]
    /\ generate_returned = GeneratePending

GenerateInit ==
    /\ generate_args \in GenerateCalls
    /\ generate_returned = GeneratePending

GenerateNext == generate_tags

(***************************************************************************)
(* Discovery and extraction batch: ContentAgent.get_content                *)
(***************************************************************************)
MaxSources == 3

\* the urls search_web can return, and the article extract_content builds from each
ContentUrls == {a.url : a \in SynthArticles}

extracted_article(url) == CHOOSE a \in SynthArticles : a.url = url

\* search results without duplicates (search_web removes them)
SearchResultLists ==
    { results \in SeqsUpTo(ContentUrls, MaxSources) :
        \A j, k \in 1..Len(results) : j # k => results[j] # results[k] }

\* a call: its arguments, whether self.agent.ainvoke raises, what search_web
\* returns and the urls whose extraction raises
ContentCalls ==
    [ max_sources       : 1..MaxSources,
      group_and_rewrite : BOOLEAN,
      agent_raises      : BOOLEAN,
      search_results    : SearchResultLists,
      failing           : SUBSET ContentUrls ]

ContentRaised == [state |-> "raised", path |-> "none", articles |-> <<>>]

\* search_results[:max_sources]
selected(args) ==
    SubSeq(args.search_results, 1,
           IF Len(args.search_results) < args.max_sources
           THEN Len(args.search_results) ELSE args.max_sources)

\* extract_and_process: the article, or None when extract_content raised
extract_and_process(url, failing) ==
    IF url \in failing THEN NoneValue ELSE extracted_article(url)

\* asyncio.gather: the results in the order of the tasks handed to it
article_contents(args) ==
    [k \in 1..Len(selected(args)) |-> extract_and_process(selected(args)[k], args.failing)]

keep_all(contents) == contents

\* [article for article in article_contents if article is not None]
filter_none(contents) == SelectSeq(contents, LAMBDA article : article.kind # "None")

\* the agent run and search_web; the extraction of every selected result is
\* issued at once
content_start ==
    /\ content_returned.state = "pending"
    /\ content_tasks = <<>>
    /\ content_articles = NoneValue
    /\ IF content_args.agent_raises
       THEN /\ content_returned' = ContentRaised
            /\ UNCHANGED <<content_tasks, content_articles>>
       ELSE IF content_args.search_results = <<>>
       THEN /\ content_articles' = <<>>
            /\ content_returned' = Returned("articles", <<>>)
            /\ UNCHANGED content_tasks
       ELSE /\ content_tasks' = [k \in 1..Len(selected(content_args)) |-> "running"]
            /\ UNCHANGED <<content_articles, content_returned>>
    /\ UNCHANGED <<content_args, content_finished>>

\* the thread of one extraction ends, with an article or with an exception
\* that extract_and_process catches
extract_ends(k) ==
    /\ content_tasks[k] = "running"
    /\ content_tasks' =
           [content_tasks EXCEPT ![k] =
               IF selected(content_args)[k] \in content_args.failing
               THEN "failed" ELSE "done"]
    /\ content_finished' = Append(content_finished, k)
    /\ UNCHANGED <<content_args, content_articles, content_returned>>

\* gather returns when every extraction has ended; the None results are
\* dropped and the articles are returned, synthesized when asked for
content_join ==
    LET articles == filter_none(article_contents(content_args)) IN
    /\ content_returned.state = "pending"
    /\ content_tasks # <<>>
    /\ \A k \in 1..Len(content_tasks) : content_tasks[k] # "running"
    /\ content_articles' = articles
    /\ IF content_args.group_and_rewrite /\ Len(articles) > 0
       THEN \E outcome \in LLMOutcomes, topic_list \in Orderings(collected_topics(articles)) :
               content_returned' =
                   synthesis_result([articles |-> articles, language |-> "en",
                                     target_difficulty |-> "intermediate"],
                                    outcome, topic_list)
       ELSE content_returned' = Returned("articles", articles)
    /\ UNCHANGED <<content_args, content_tasks, content_finished>>

ContentIdle ==
    /\ content_args = [max_sources |-> MaxSources, group_and_rewrite |-> FALSE,
                       agent_raises |-> FALSE, search_results |-> <<>>, failing |-> {}]
    /\ content_tasks = <<>>
    /\ content_finished = <<>>
    /\ content_articles = NoneValue
    /\ content_returned = Pending

ContentInit ==
    /\ content_args \in ContentCalls
    /\ content_tasks = <<>>
    /\ content_finished = <<>>
    /\ content_articles = NoneValue
    /\ content_returned = Pending

ContentNext ==
    \/ content_start
    \/ \E k \in 1..Len(content_tasks) : extract_ends(k)
    \/ content_join

(***************************************************************************)
(* Tagging runs: extract_tags_from_article, one run per article            *)
(***************************************************************************)
MaxRuns == 2

MaxRunTags == 2

\* no tag of that name was found
NoExisting == [id |-> "", translations |-> NoTranslations]

\* a run that has its tag objects from generate_tags and stores them one by one
TagRun(tag_objects) ==
    [pc |-> IF tag_objects = <<>> THEN "done" ELSE "find",
     tag_objects |-> tag_objects, existing_tag |-> NoExisting, tag_ids |-> <<>>]

\* the tag object the loop of the run is at
current_tag_obj(run) == run.tag_objects[Len(run.tag_ids) + 1]

\* the rewrite phase of some bulk operation reaches an article: Tagging
\* generates its tag objects
run_generate(tag_objects) ==
    /\ Len(tag_runs) < MaxRuns
    /\ tag_runs' = Append(tag_runs, TagRun(tag_objects))
    /\ UNCHANGED <<tagVars, articles_collection>>

\* db.get_tags(query=name) and the first result whose name is equal ignoring case
run_get_tags(r) ==
    LET run == tag_runs[r]
        matching == { id \in DOMAIN tags_collection :
                        tag_lower(tags_collection[id].name)
                            = tag_lower(current_tag_obj(run).name) }
    IN
    /\ run.pc = "find"
    /\ \/ /\ matching = {}
          /\ tag_runs' = [tag_runs EXCEPT ![r].pc = "store", ![r].existing_tag = NoExisting]
       \/ \E id \in matching :
             tag_runs' = [tag_runs EXCEPT
                            ![r].pc = "store",
                            ![r].existing_tag =
                                [id |-> id, translations |-> tags_collection[id].translations]]
    /\ UNCHANGED <<tagVars, articles_collection>>

\* the run has the id of the tag and goes on to its next tag object
tag_stored(r, tag_id) ==
    LET run == tag_runs[r] IN
    tag_runs' =
        [tag_runs EXCEPT
            ![r].tag_ids = Append(@, tag_id),
            ![r].existing_tag = NoExisting,
            ![r].pc = IF Len(run.tag_ids) + 1 < Len(run.tag_objects) THEN "find" ELSE "done"]

\* the existing tag is used, and updated when the tag object brings
\* translations it has not; else db.create_tag makes a new tag
run_store(r) ==
    LET run     == tag_runs[r]
        tag_obj == current_tag_obj(run)
        updated_translations == tag_obj.translations @@ run.existing_tag.translations
    IN
    /\ run.pc = "store"
    /\ IF run.existing_tag # NoExisting
       THEN /\ tag_stored(r, run.existing_tag.id)
            /\ IF /\ tag_obj.translations # NoTranslations
                  /\ updated_translations # run.existing_tag.translations
               THEN /\ tag_op("update_tag", run.existing_tag.id, <<>>)
                    /\ tags_collection' =
                           [tags_collection EXCEPT
                               ![run.existing_tag.id].translations = updated_translations]
                    /\ UNCHANGED <<tags_created, articles_collection>>
               ELSE UNCHANGED <<tagVars, articles_collection>>
       ELSE /\ tag_stored(r, TagIdPool[tags_created + 1])
            /\ create_tag([ name         |-> tag_obj.name,
                            language     |-> tag_obj.original_language,
                            english_name |-> NoName,
                            translations |-> tag_obj.translations,
                            article_ids  |-> <<>> ])

RunIdle == tag_runs = <<>>

RunNext ==
    \/ \E tag_objects \in SeqsUpTo(TagObjects, MaxRunTags) : run_generate(tag_objects)
    \/ \E r \in 1..Len(tag_runs) : run_get_tags(r)
    \/ \E r \in 1..Len(tag_runs) : run_store(r)

(***************************************************************************)
(* Specifications                                                          *)
(***************************************************************************)
BulkInit ==
    /\ bulk_fetch_operations = [id \in {} |-> id]
    /\ tasks = [id \in {} |-> id]
    /\ articles_collection = {}
    /\ wall_clock = 0
    /\ discovered = 0
    /\ faults = 0

BulkNext ==
    \/ \E request \in BulkFetchRequest : bulk_fetch(request)
    \/ \E id \in DOMAIN tasks : process_bulk_fetch(id)
    \/ \E id \in DOMAIN tasks : fetch_rss(id)
    \/ \E id \in DOMAIN tasks : fetch_check(id)
    \/ \E id \in DOMAIN tasks : fetch_insert(id)
    \/ \E id \in DOMAIN tasks : fetch_end_language(id)
    \/ \E id \in DOMAIN tasks : rewrite_tag(id)
    \/ \E id \in DOMAIN tasks : rewrite_synth(id)
    \/ \E id \in DOMAIN tasks : rewrite_mark(id)

CacheInit ==
    /\ cache_files = [key \in {} |-> key]
    /\ metadata = NewMetadata
    /\ stats = [hits |-> 0, misses |-> 0, items |-> 0]
    /\ now = 0
    /\ response = NoResponse

CacheNext ==
    \/ \E query \in Queries, language \in CacheLanguages : cache_get(query, language)
    \/ \E query \in Queries, language \in CacheLanguages, articles \in ArticleLists :
           cache_set(query, language, articles)
    \/ cache_clear
    \/ \E hours \in ClockSteps : clock_advance(hours)
    \/ \E query \in Queries, language \in CacheLanguages, force_refresh \in BOOLEAN :
           get_articles(query, language, force_refresh)

LateIdle == ContentIdle /\ RunIdle

\* queries and language codes that hold an underscore
KeyQueries == { <<"a", " ", "b">>, <<"a", "_", "b">>, <<"b">> }

KeyLanguages == { <<"e", "n">>, <<"e", "n", "_", "a">> }

KeyNext ==
    \/ \E query \in KeyQueries, language \in KeyLanguages : cache_get(query, language)
    \/ \E query \in KeyQueries, language \in KeyLanguages, articles \in ArticleLists :
           cache_set(query, language, articles)
    \/ cache_clear

\* the requests of the operations that share the registry
RegistryRequests ==
    { request \in BulkFetchRequest :
        request.language = "en" /\ request.process_steps = <<"fetch", "aggregate", "rewrite">> }

RegistryNext ==
    \/ \E request \in RegistryRequests : bulk_fetch_registry(request)
    \/ second_passes
    \/ \E id \in DOMAIN tasks : process_bulk_fetch(id)
    \/ \E id \in DOMAIN tasks : fetch_rss(id)
    \/ \E id \in DOMAIN tasks : fetch_check(id)
    \/ \E id \in DOMAIN tasks : fetch_insert(id)
    \/ \E id \in DOMAIN tasks : fetch_end_language(id)
    \/ \E id \in DOMAIN tasks : rewrite_tag(id)
    \/ \E id \in DOMAIN tasks : rewrite_synth(id)
    \/ \E id \in DOMAIN tasks : rewrite_mark(id)

CallsIdle == SearchIdle /\ PersistIdle /\ GenerateIdle /\ LateIdle

Init == BulkInit /\ CacheInit /\ SynthIdle /\ ExtractIdle /\ TagIdle /\ CallsIdle

\* the bulk operation orchestrator
Next == BulkNext /\ UNCHANGED <<cacheVars, synthVars, extractVars, tagVars, callVars>>

Spec == Init /\ [][Next]_vars

\* the query cache
CacheSpec ==
    Init /\ [][CacheNext /\ UNCHANGED <<bulkVars, synthVars, extractVars, tagVars, callVars>>]_vars

\* the keys of the query cache: set, get and clear on queries and languages
\* with underscores
KeySpec ==
    Init /\ [][KeyNext /\ UNCHANGED <<bulkVars, synthVars, extractVars, tagVars, callVars>>]_vars

\* the registry: several bulk operations created and run side by side
RegistrySpec ==
    Init /\ [][RegistryNext /\ UNCHANGED <<cacheVars, synthVars, extractVars, tagVars,
                                            callVars>>]_vars

\* extraction: one call of extract_content on any page
ExtractionInit == BulkInit /\ CacheInit /\ SynthIdle /\ ExtractInit /\ TagIdle /\ CallsIdle

ExtractSpec ==
    ExtractionInit
    /\ [][ExtractNext /\ UNCHANGED <<bulkVars, cacheVars, synthVars, tagVars, callVars>>]_vars

\* synthesis: one call of group_and_rewrite_articles on any input
SynthesisInit == BulkInit /\ CacheInit /\ ExtractIdle /\ SynthInit /\ TagIdle /\ CallsIdle

SynthSpec ==
    SynthesisInit
    /\ [][SynthNext /\ UNCHANGED <<bulkVars, cacheVars, extractVars, tagVars, callVars>>]_vars

\* the tag store: tag operations on two persisted articles
TagStoreInit == TagInit /\ CacheInit /\ SynthIdle /\ ExtractIdle /\ CallsIdle

TagSpec ==
    TagStoreInit
    /\ [][TagNext /\ UNCHANGED <<bulk_fetch_operations, tasks, wall_clock, discovered, faults,
                                 cacheVars, synthVars, extractVars, callVars>>]_vars

\* discovery: one call of search_web on any input
DiscoveryInit ==
    BulkInit /\ CacheInit /\ SynthIdle /\ ExtractIdle /\ TagIdle /\ SearchInit /\ PersistIdle
    /\ GenerateIdle /\ LateIdle

SearchSpec ==
    DiscoveryInit
    /\ [][SearchNext /\ UNCHANGED <<bulkVars, cacheVars, synthVars, extractVars, tagVars,
                                    persistVars, generateVars, lateVars>>]_vars

\* persistence: save_article calls and fetch-phase persists, interleaved
PersistenceInit ==
    BulkInit /\ CacheInit /\ SynthIdle /\ ExtractIdle /\ TagIdle /\ SearchIdle /\ PersistInit
    /\ GenerateIdle /\ LateIdle

PersistSpec ==
    PersistenceInit
    /\ [][PersistNext /\ UNCHANGED <<bulk_fetch_operations, tasks, wall_clock, discovered,
                                     faults, cacheVars, synthVars, extractVars, tagVars,
                                     searchVars, generateVars, lateVars>>]_vars

\* tagging: one call of generate_tags on any input
TaggingInit ==
    BulkInit /\ CacheInit /\ SynthIdle /\ ExtractIdle /\ TagIdle /\ SearchIdle /\ PersistIdle
    /\ GenerateInit /\ LateIdle

GenerateSpec ==
    TaggingInit
    /\ [][GenerateNext /\ UNCHANGED <<bulkVars, cacheVars, synthVars, extractVars, tagVars,
                                      searchVars, persistVars, lateVars>>]_vars

\* the batch of get_content: one call on any input, its extractions interleaved
BatchInit ==
    BulkInit /\ CacheInit /\ SynthIdle /\ ExtractIdle /\ TagIdle /\ SearchIdle /\ PersistIdle
    /\ GenerateIdle /\ ContentInit /\ RunIdle

ContentSpec ==
    BatchInit
    /\ [][ContentNext /\ UNCHANGED <<bulkVars, cacheVars, synthVars, extractVars, tagVars,
                                     searchVars, persistVars, generateVars, runVars>>]_vars

\* tagging runs of concurrently running bulk operations, interleaved
RunsInit ==
    BulkInit /\ CacheInit /\ SynthIdle /\ ExtractIdle /\ TagIdle /\ SearchIdle /\ PersistIdle
    /\ GenerateIdle /\ ContentIdle /\ RunIdle

RunSpec ==
    RunsInit
    /\ [][RunNext /\ UNCHANGED <<bulk_fetch_operations, tasks, wall_clock, discovered, faults,
                                 cacheVars, synthVars, extractVars, searchVars, persistVars,
                                 generateVars, contentVars>>]_vars

(***************************************************************************)
(* Properties of the bulk operation orchestrator                           *)
(***************************************************************************)
FetchOnlyRequested(operation) ==
    operation.fetch_only \/ operation.process_steps = <<"fetch">>

\* C1: an operation created with process_steps = ["fetch"] or with fetch_only set
\* never invokes Tagging or Synthesis, and once its fetch step has finished its
\* status is "completed".
C1_FetchOnlyNeverRewrites ==
    \A id \in DOMAIN bulk_fetch_operations :
        FetchOnlyRequested(bulk_fetch_operations[id]) =>
            /\ ~tasks[id].tagging_called
            /\ ~tasks[id].synthesis_called
            /\ tasks[id].fetch_finished => bulk_fetch_operations[id].status = "completed"

\* a fetch_only operation with all three steps listed has stored an article and completed
C1_Witness ==
    \E id \in DOMAIN bulk_fetch_operations :
        /\ bulk_fetch_operations[id].fetch_only
        /\ Contains(bulk_fetch_operations[id].process_steps, "rewrite")
        /\ tasks[id].fetch_finished
        /\ tasks[id].persisted # {}
        /\ bulk_fetch_operations[id].status = "completed"

\* the raw documents the fetch step of the operation stored for the articles whose
\* rewrite threw
ThrewDocuments(id) ==
    { d \in tasks[id].persisted : d.url \in tasks[id].rewrite_threw }

\* C2 as stated: when the rewrite phase throws for one article the stored raw
\* record stays intact and the operation ends "failed" with a non-empty error.
C2_RewriteThrowFailsOperation ==
    \A id \in DOMAIN bulk_fetch_operations :
        (tasks[id].rewrite_threw # {} /\ tasks[id].pc = "done") =>
            /\ ThrewDocuments(id) \subseteq articles_collection
            /\ bulk_fetch_operations[id].status = "failed"
            /\ bulk_fetch_operations[id].error \notin {Absent, ""}

\* C2 (amended): when Synthesis, the insert of a synthesized article or the marking
\* update raises for one article, the raw record the fetch phase stored for it stays
\* present and unchanged, the exception stays inside the rewrite phase, and the
\* operation ends "completed" with no error.
C2_RewriteThrowIsContained ==
    \A id \in DOMAIN bulk_fetch_operations :
        tasks[id].rewrite_threw # {} =>
            /\ ThrewDocuments(id) \subseteq articles_collection
            /\ bulk_fetch_operations[id].status # "failed"
            /\ bulk_fetch_operations[id].error = Absent
            /\ tasks[id].pc = "done" => bulk_fetch_operations[id].status = "completed"

\* the rewrite of an article this operation stored threw, and the operation is over
C2_Witness ==
    \E id \in DOMAIN bulk_fetch_operations :
        /\ ThrewDocuments(id) # {}
        /\ tasks[id].pc = "done"
        /\ bulk_fetch_operations[id].status = "completed"

\* C3: an operation is created "running", its status only ever moves from
\* "running" to "completed" or "failed" and never changes afterwards, and a
\* "completed" operation has its completed flag and completed_at set.
C3_StatusMachine ==
    [][ \A id \in DOMAIN bulk_fetch_operations' :
          LET after == bulk_fetch_operations'[id] IN
          /\ after.status \in {"running", "completed", "failed"}
          /\ after.status = "completed" => after.completed /\ after.completed_at # Absent
          /\ IF id \in DOMAIN bulk_fetch_operations
             THEN LET before == bulk_fetch_operations[id] IN
                  before.status # after.status =>
                      before.status = "running" /\ after.status \in {"completed", "failed"}
             ELSE after.status = "running" /\ ~after.completed
      ]_vars

\* an operation that ran its rewrite step is completed
C3_Witness ==
    \E id \in DOMAIN bulk_fetch_operations :
        /\ bulk_fetch_operations[id].status = "completed"
        /\ bulk_fetch_operations[id].completed
        /\ tasks[id].synthesis_called

(***************************************************************************)
(* Properties of the query cache                                           *)
(***************************************************************************)
\* the plain form of a list of articles: dictionaries all the way down, a
\* date as its ISO string
PlainDate(date) ==
    IF date.kind = "datetime" THEN [kind |-> "str", value |-> date.value] ELSE NoneValue

PlainSection(section) ==
    [kind |-> "dict", type |-> section.type, content |-> section.content,
     caption |-> NoneValue, order |-> section.order]

PlainForm(articles) ==
    [k \in 1..Len(articles) |->
        [kind |-> "dict", title |-> articles[k].title, url |-> articles[k].url,
         source |-> articles[k].source, language |-> articles[k].language,
         date_published |-> PlainDate(articles[k].date_published),
         content |-> [n \in 1..Len(articles[k].content) |->
                         PlainSection(articles[k].content[n])],
         topics |-> articles[k].topics]]

\* the age of the record stored under the key of (query, language)
Stored(query, language) == _get_cache_key(query, language) \in DOMAIN cache_files

Age(query, language) == now - cache_files[_get_cache_key(query, language)].timestamp

\* get right after set returns the plain form of what was set
GetAfterSet ==
    \A query \in Queries, language \in CacheLanguages, articles \in ArticleLists :
        cache_set(query, language, articles) =>
            cache_get_result(query, language)' = Hit(PlainForm(articles))

\* POST /articles answers from the cache whenever get returns a payload
AnswersFromCache ==
    \A query \in Queries, language \in CacheLanguages :
        (get_articles(query, language, FALSE) /\ cache_get_result(query, language).found) =>
            /\ response'.source = "cache"
            /\ response'.articles = cache_get_result(query, language).articles
            /\ cache_files' = cache_files

\* C4: for every query, language and article list, the empty list included,
\* get right after set returns the plain form of the list, and POST /articles
\* then answers from the cache without calling agent.get_content again.
C4_GetAfterSetAnswersFromCache == [][GetAfterSet /\ AnswersFromCache]_vars

\* the first half of C4 alone: get right after set returns the plain form
C4_GetAfterSetReturnsPlainForm == [][GetAfterSet]_vars

RECURSIVE collapse_spaces(_)
collapse_spaces(str) ==
    IF Len(str) < 2 THEN str
    ELSE IF str[1] = " " /\ str[2] = " " THEN collapse_spaces(Tail(str))
    ELSE <<str[1]>> \o collapse_spaces(Tail(str))

\* trim, lowercase, collapse whitespace
Normalize(query) == collapse_spaces(strip(str_lower(query)))

\* C6: two queries that are equal after trimming, lowercasing and collapsing
\* runs of whitespace address the same entry: what is set under one is
\* returned by a get under the other.
C6_NormalizedQueriesShareEntry ==
    [][ \A query \in Queries, other \in Queries, language \in CacheLanguages,
           articles \in ArticleLists :
          (cache_set(query, language, articles) /\ Normalize(query) = Normalize(other)) =>
              cache_get_result(other, language)' = Hit(PlainForm(articles))
      ]_vars

(***************************************************************************)
(* Properties of synthesis                                                 *)
(***************************************************************************)
SynthesizedSource == "AI-generated from multiple sources"

\* the call was made on at least one article and has returned
SynthesisReturned == synth_returned.state = "returned" /\ Len(synth_args.articles) >= 1

\* C7: whatever the language-model call did (well-formed response, malformed
\* response, or a raise), a call on N >= 1 articles returns exactly one
\* article, and it is a synthesized one.
C7_ExactlyOneSynthesizedArticle ==
    SynthesisReturned =>
        /\ Len(synth_returned.articles) = 1
        /\ synth_returned.articles[1].source = SynthesizedSource

\* C8: on every path that returns, the topics of what is returned cover the
\* union of the topics of all input articles.
C8_TopicsCoverInputs ==
    SynthesisReturned =>
        \A k \in 1..Len(synth_returned.articles) :
            collected_topics(synth_args.articles)
                \subseteq collected_topics(<<synth_returned.articles[k]>>)

\* the source references an article carries: its source_articles list
SourceArticleRefs(article) ==
    IF "source_articles" \in DOMAIN article THEN article.source_articles ELSE <<>>

\* C9: on the parsed path and on the fallback path, the synthesized article
\* carries a source_articles list of length >= 1.
C9_CarriesSourceRefs ==
    (SynthesisReturned /\ synth_returned.path \in {"parsed", "fallback"}) =>
        \A k \in 1..Len(synth_returned.articles) :
            Len(SourceArticleRefs(synth_returned.articles[k])) >= 1

(***************************************************************************)
(* Properties of extraction                                                *)
(***************************************************************************)
\* C10: whichever step of the fallback chain produced them (structured
\* parse, blank-line split of the raw text, or the single placeholder), the
\* sections of a returned article are non-empty and their order values are
\* 0, 1, 2, ... in sequence.
C10_SectionOrders ==
    extract_returned.state = "returned" =>
        LET content == extract_returned.articles[1].content IN
        /\ content # <<>>
        /\ \A k \in 1..Len(content) : content[k].order = k - 1
        /\ extract_returned.path \in {"structured", "text", "placeholder"}

\* the raw text was split into two paragraphs around a blank chunk
C10_Witness ==
    /\ extract_returned.state = "returned"
    /\ extract_returned.path = "text"
    /\ Len(split_paragraphs(extract_page.text)) = 3
    /\ Len(extract_returned.articles[1].content) = 2
    /\ extract_returned.articles[1].content[2].order = 1

\* ------------------------------------------------------------------
\* Properties of the tag store (TagSpec)
\* ------------------------------------------------------------------

\* the step is a call of the given operation on the given tag and article
TagStep(op, tag_id, article_id) ==
    /\ tag_ops' = tag_ops + 1
    /\ last_tag_op' = TagOp(op, tag_id, article_id)

\* the number of persisted articles whose tag_ids contain the tag
referencing_articles(tag_id) ==
    Cardinality({ d \in articles_collection : Contains(d.tag_ids, tag_id) })

\* C11: when an article carries tags t1 and t2 and t1 is removed from it
\* with remove_tag_from_article, t1's article_count is exactly 1 lower
\* than before the removal and t2's article_count is unchanged.
C11_RemoveLowersOnlyThatCount ==
    [][ \A t1 \in DOMAIN tags_collection, t2 \in DOMAIN tags_collection, a \in ArticleIds :
          ( /\ t1 # t2
            /\ Contains(tag_ids_of(a), t1)
            /\ Contains(tag_ids_of(a), t2)
            /\ TagStep("remove_tag_from_article", t1, a) )
          => /\ tags_collection'[t1].article_count = tags_collection[t1].article_count - 1
             /\ tags_collection'[t2].article_count = tags_collection[t2].article_count
      ]_vars

\* two tags were created, both were added to the first article, and the
\* first tag has just been removed from it again
C11_Witness ==
    /\ tag_ops = 5
    /\ tags_created = 2
    /\ last_tag_op = TagOp("remove_tag_from_article", "tag1", RawId(OperationId(0, 1), "ko", 1))
    /\ tag_ids_of(RawId(OperationId(0, 1), "ko", 1)) = <<"tag2">>
    /\ tag_ids_of(RawId(OperationId(0, 1), "ko", 2)) = <<>>
    /\ tags_collection["tag1"].article_count = 0
    /\ tags_collection["tag2"].article_count = 1

\* C12: after any sequence of create_tag with article ids,
\* add_tag_to_article, remove_tag_from_article, update_article_tags and
\* rewritten articles persisted with tag ids, every tag's article_count
\* equals the number of persisted articles whose tag_ids contain the tag.
C12_CountEqualsReferencingArticles ==
    \A tag_id \in DOMAIN tags_collection :
        tags_collection[tag_id].article_count = referencing_articles(tag_id)

\* C13: once the duplicate-merge pass has run, no two tags share a
\* canonical name (the tags "gisul"/ko/"technology" and "technology"/en
\* have become one tag that carries the Korean translation).
C13_NoDuplicateNameSurvivesMerge ==
    [][ (\E tag_id \in {""} \cup TagIdPoolSet : TagStep("merge_tag_group", tag_id, <<>>))
        => \A id1 \in DOMAIN tags_collection', id2 \in DOMAIN tags_collection' :
              tags_collection'[id1].name = tags_collection'[id2].name => id1 = id2
      ]_vars

\* ------------------------------------------------------------------
\* Properties of search_web (SearchSpec)
\* ------------------------------------------------------------------

\* the feeds gave no qualifying entry and the secondary search added nothing
NothingFound ==
    LET from_feeds == feed_results(search_args,
                                   search_args.entries
                                   \o (IF search_args.long_feed THEN LongFeed ELSE <<>>))
    IN  from_feeds = <<>> /\ google_results(search_args, from_feeds) = <<>>

DefaultUrls(language) ==
    IF language = "ko"
    THEN {"https://www.chosun.com", "https://www.hani.co.kr"}
    ELSE {"https://www.bbc.com/news/world", "https://www.nytimes.com/section/world"}

\* C14: search_web never returns an empty list; when no feed entry
\* qualifies and the secondary search adds nothing, the list returned is
\* the default sites of the language (the English ones for a language
\* without defaults), each with a non-empty title, url and snippet.
C14_NeverEmptyDefaultsWhenNothingFound ==
    search_returned.state = "returned"
    => /\ Len(search_returned.results) > 0
       /\ NothingFound
          => /\ { search_returned.results[k].url : k \in 1..Len(search_returned.results) }
                = DefaultUrls(search_args.language)
             /\ \A k \in 1..Len(search_returned.results) :
                   /\ search_returned.results[k].title # <<>>
                   /\ search_returned.results[k].url # ""
                   /\ search_returned.results[k].snippet.text # <<>>

\* a call for a language without feeds or defaults met an entry without a
\* link and an empty answer of the secondary search, and returned
C14_Witness ==
    /\ search_returned.state = "returned"
    /\ search_args.language = "fr"
    /\ search_args.entries # <<>>
    /\ search_args.google = [kind |-> "items", items |-> <<>>]
    /\ NothingFound
    /\ Len(search_returned.results) = 2
    /\ search_returned.results[1].url = "https://www.bbc.com/news/world"

\* C15: every list search_web returns has no two items with the same url,
\* is sorted by relevance in non-increasing order and has at most 10 items.
C15_UniqueSortedCapped ==
    search_returned.state = "returned"
    => LET results == search_returned.results IN
       /\ \A j, k \in 1..Len(results) : results[j].url = results[k].url => j = k
       /\ \A k \in 1..(Len(results) - 1) : results[k].relevance >= results[k + 1].relevance
       /\ Len(results) <= RESULT_LIMIT

\* more than 10 unique results, two feed entries with the same url among
\* them, were re-scored against their order, and 10 were returned
C15_Witness ==
    /\ search_returned.state = "returned"
    /\ Len(unique_results(search_args)) > RESULT_LIMIT
    /\ Len(search_args.entries) = 2
    /\ search_args.entries[1].link = search_args.entries[2].link
    /\ search_args.scoring = "rising"
    /\ Len(search_returned.results) = RESULT_LIMIT

\* C16: every result search_web returns has a relevance between 0 and 1
\* (0 and 100 hundredths), whether it is the keyword score, the fixed
\* score of the secondary search or the score of the re-scoring.
C16_RelevanceInUnitInterval ==
    search_returned.state = "returned"
    => \A k \in 1..Len(search_returned.results) :
          /\ search_returned.results[k].relevance >= 0
          /\ search_returned.results[k].relevance <= 100

\* ------------------------------------------------------------------
\* Properties of the retries of extract_content (ExtractSpec)
\* ------------------------------------------------------------------

\* the attempts that ended in a failure of the network
NetworkFailures == {"download failed", "request failed"}

BackoffSchedule == [k \in 1..(STOP_AFTER_ATTEMPT - 1) |-> wait_exponential(k)]

\* C17: when extract_content raises and every attempt met a network
\* failure, it has made exactly 3 attempts and slept between them as the
\* exponential backoff says; when it raises on another kind of error in
\* its first attempt, it has made exactly 1 attempt and not slept.
C17_ThreeAttemptsOnNetworkFailure ==
    extract_returned.state = "raised"
    => /\ (\A k \in 1..Len(extract_log) : extract_log[k] \in NetworkFailures)
          => /\ Len(extract_log) = STOP_AFTER_ATTEMPT
             /\ extract_waits = BackoffSchedule
       /\ extract_log[1] \notin NetworkFailures
          => /\ Len(extract_log) = 1
             /\ extract_waits = <<>>

\* ------------------------------------------------------------------
\* Properties of the persists of articles (PersistSpec)
\* ------------------------------------------------------------------

\* C18: after any interleaving of save_article calls and persists of the
\* fetch phase, the store holds at most one raw article for every url.
C18_OneRawArticlePerUrl ==
    \A d1 \in articles_collection, d2 \in articles_collection :
        (d1.content_type = "raw" /\ d2.content_type = "raw" /\ d1.url = d2.url)
        => d1._id = d2._id

\* ------------------------------------------------------------------
\* Properties of generate_tags (GenerateSpec)
\* ------------------------------------------------------------------

\* C19: generate_tags with max_tags = N returns at most N tag objects,
\* no two of them with the same canonical name, whatever the language of
\* the article and whatever the model answers.
C19_AtMostNDistinctNames ==
    generate_returned.state = "returned"
    => LET tags == generate_returned.tags IN
       /\ Len(tags) <= generate_args.max_tags
       /\ \A j, k \in 1..Len(tags) : tags[j].name = tags[k].name => j = k

\* ------------------------------------------------------------------
\* Properties of the counters of the fetch phase (Spec)
\* ------------------------------------------------------------------

\* the raw articles the operation has persisted
persisted_by(collection, id) ==
    Cardinality({ d \in collection : d.content_type = "raw" /\ d.bulk_fetch_id = id })

\* C20: the counters articles_fetched and articles_skipped of an
\* operation never decrease, and once its fetch phase has finished
\* articles_fetched is the number of articles the operation persisted.
C20_FetchCountersKeepTheirCounts ==
    [][ \A id \in DOMAIN bulk_fetch_operations :
          /\ bulk_fetch_operations'[id].articles_fetched
                >= bulk_fetch_operations[id].articles_fetched
          /\ bulk_fetch_operations'[id].articles_skipped
                >= bulk_fetch_operations[id].articles_skipped
          /\ tasks'[id].fetch_finished
                => bulk_fetch_operations'[id].articles_fetched
                      = persisted_by(articles_collection', id)
      ]_vars

\* ------------------------------------------------------------------
\* Properties of the rewrite phase (Spec)
\* ------------------------------------------------------------------

\* the raw records stored under the url
source_records(collection, url) ==
    { d \in collection : d.content_type = "raw" /\ d.url = url }

\* C21: the rewrite phase calls Tagging only for an article whose source
\* record is not marked rewritten, and when it has finished an article
\* (the update that marks it did not raise) the source record of that
\* article is marked rewritten.
C21_RewrittenArticlesAreMarked ==
    [][ \A id \in DOMAIN tasks :
          /\ (tasks[id].pc = "tag" /\ tasks'[id].pc # "tag")
                => \A d \in source_records(articles_collection,
                                           tasks[id].all_articles[tasks[id].ri].url) :
                      ~d.rewritten
          /\ (tasks[id].pc = "mark" /\ tasks'[id].pc # "mark" /\ faults' = faults)
                => \A d \in source_records(articles_collection',
                                           tasks[id].all_articles[tasks[id].ri].url) :
                      d.rewritten
      ]_vars


\* the regions the prompt asks the model for
RequiredRegions == {"TITLE:", "CONTENT:", "KEY_VOCABULARY:"}

\* C22: when the model answers with a text in which a required region is
\* missing, the call returns the fallback article built from the sources.
C22_FallbackWhenRegionMissing ==
    ( /\ synth_returned.state = "returned"
      /\ synth_llm.kind = "text"
      /\ \E region \in RequiredRegions : ~Contains(synth_llm.content, region) )
    => \E topic_list \in Orderings(collected_topics(synth_args.articles)) :
          synth_returned.articles =
              <<fallback_article(synth_args.articles, synth_args.language, topic_list)>>


\* C23: an operation without fetch_only that has completed ran exactly the
\* phases named in its process_steps: fetch iff "fetch" is listed, aggregate
\* iff "aggregate" is listed, and rewrite (Tagging of the fetched articles)
\* iff "rewrite" is listed.
C23_RunsExactlyRequestedPhases ==
    \A id \in DOMAIN tasks :
        LET operation == bulk_fetch_operations[id]
            steps     == operation.process_steps
        IN  (~operation.fetch_only /\ operation.status = "completed") =>
                /\ tasks[id].fetch_finished <=> Contains(steps, "fetch")
                /\ (operation.articles_prepared # NotSet) <=> Contains(steps, "aggregate")
                /\ tasks[id].tagging_called => Contains(steps, "rewrite")
                /\ (Contains(steps, "rewrite") /\ tasks[id].all_articles # <<>>)
                       => tasks[id].tagging_called


\* the positions of rewrite_step at which a language-model call is issued
ModelCallPositions == {"tag", "synth"}

\* C24: within the rewrite phase of one operation, a language-model call
\* (Tagging or Synthesis) is never followed directly by the next
\* language-model call: the task first takes a step that is not such a call.
C24_PauseBetweenModelCalls ==
    [][ \A id \in DOMAIN tasks :
            (tasks[id].pc \in ModelCallPositions /\ tasks'[id] # tasks[id])
                => tasks'[id].pc \notin ModelCallPositions
      ]_vars

\* the articles of the selected urls whose extraction succeeds, in candidate order
succeeded_articles ==
    LET urls == SelectSeq(selected(content_args), LAMBDA url : url \notin content_args.failing)
    IN  [k \in 1..Len(urls) |-> extracted_article(urls[k])]

\* C25: when the batch of get_content has been joined, every selected
\* extraction has ended (one that failed left the others running to their
\* end), and the batch is exactly the articles of the urls whose extraction
\* succeeded, in candidate order, whatever the order in which they ended;
\* that list is what the call returns when no synthesis was asked for.
C25_BatchIsSucceededInCandidateOrder ==
    (content_returned.state = "returned" /\ content_tasks # <<>>) =>
        /\ \A k \in 1..Len(content_tasks) :
              content_tasks[k] = IF selected(content_args)[k] \in content_args.failing
                                 THEN "failed" ELSE "done"
        /\ Len(content_finished) = Len(content_tasks)
        /\ content_articles = succeeded_articles
        /\ ~content_args.group_and_rewrite => content_returned.articles = succeeded_articles

\* three extractions, the second failed, and they ended last candidate first
C25_Witness ==
    /\ content_returned.state = "returned"
    /\ content_finished = <<3, 2, 1>>
    /\ content_tasks = <<"done", "failed", "done">>
    /\ Len(content_returned.articles) = 2
    /\ ~content_args.group_and_rewrite

\* the sum of the article counts of the entries of the index
RECURSIVE indexed_articles(_, _)
indexed_articles(queries, keys) ==
    IF keys = {} THEN 0
    ELSE LET key == CHOOSE k \in keys : TRUE IN
         queries[key].article_count + indexed_articles(queries, keys \ {key})

\* C26: the totals of get_stats are those of the metadata index: as many
\* queries as the index has keys, and as many articles as the entries of the
\* index count together.
C26_StatsTotalsMatchIndex ==
    /\ get_stats.total_queries = Cardinality(DOMAIN metadata.queries)
    /\ get_stats.total_articles = indexed_articles(metadata.queries, DOMAIN metadata.queries)

\* C27: a call of extract_content whose download and parse succeeded returns
\* an article with at least one topic: it raises only after a failure of the
\* download, the parse or the direct request, never because of the topic
\* inference.
C27_TopicsNeverEmptyNorRaising ==
    /\ extract_returned.state = "returned" => extract_returned.articles[1].topics # <<>>
    /\ extract_returned.state = "raised" =>
           extract_log[Len(extract_log)] \in AttemptFailures

\* C28: whatever the interleaving of the tagging runs, no two tags of the
\* store have canonical names that are equal ignoring case.
C28_NoTwoTagsOfOneName ==
    \A a, b \in DOMAIN tags_collection :
        a # b => tag_lower(tags_collection[a].name) # tag_lower(tags_collection[b].name)

\* query.lower().strip()
normalized_query(query) == strip(str_lower(query))

\* C29: a set never writes the cache record of a different (normalized query,
\* language) pair: a record that is there before and after a step keeps its
\* pair.
C29_SetKeepsThePairOfARecord ==
    [][ \A key \in DOMAIN cache_files \cap DOMAIN cache_files' :
            /\ normalized_query(cache_files'[key].query)
                   = normalized_query(cache_files[key].query)
            /\ cache_files'[key].language = cache_files[key].language
      ]_vars

\* C30: the registry key of an operation is its id; a step that creates an
\* operation adds one entry and leaves every entry and task that was there
\* as it was; and a step that changes the logs of an operation is a step of
\* that operation's own task and of no other.
C30_EveryOperationHasItsOwnId ==
    [][ /\ \A id \in DOMAIN bulk_fetch_operations' : bulk_fetch_operations'[id].id = id
        /\ DOMAIN bulk_fetch_operations' # DOMAIN bulk_fetch_operations =>
              /\ Cardinality(DOMAIN bulk_fetch_operations')
                     = Cardinality(DOMAIN bulk_fetch_operations) + 1
              /\ DOMAIN tasks' = DOMAIN bulk_fetch_operations'
              /\ \A id \in DOMAIN bulk_fetch_operations :
                    /\ bulk_fetch_operations'[id] = bulk_fetch_operations[id]
                    /\ tasks'[id] = tasks[id]
        /\ \A id \in DOMAIN bulk_fetch_operations :
              bulk_fetch_operations'[id].logs # bulk_fetch_operations[id].logs =>
                  /\ tasks'[id] # tasks[id]
                  /\ Len(bulk_fetch_operations'[id].logs) > Len(bulk_fetch_operations[id].logs)
                  /\ SubSeq(bulk_fetch_operations'[id].logs, 1,
                            Len(bulk_fetch_operations[id].logs))
                         = bulk_fetch_operations[id].logs
                  /\ \A other \in DOMAIN tasks \ {id} :
                        /\ tasks'[other] = tasks[other]
                        /\ bulk_fetch_operations'[other] = bulk_fetch_operations[other]
      ]_vars

\* two operations created within the same second; the task of the first has
\* logged, the second has only its opening line
C30_Witness ==
    /\ DOMAIN bulk_fetch_operations = {OperationId(0, 1), OperationId(0, 2)}
    /\ Len(bulk_fetch_operations[OperationId(0, 1)].logs) > 1
    /\ Len(bulk_fetch_operations[OperationId(0, 2)].logs) = 1
    /\ bulk_fetch_operations[OperationId(0, 1)].status = "completed"

====
